---- MODULE Spec2Model ----
(***************************************************************************)
(* JanusClient (src/src/spaces/core/JanusClient.ts): the long-poll event   *)
(* correlator (eventWaiters, handleJanusEvent, waitForJanusEvent), the     *)
(* publisher handshake of initialize() and the subscriber negotiation of   *)
(* subscribeSpeaker(), run on one single-threaded event loop.              *)
(*                                                                         *)
(* One action is one macrotask of the event loop: the arrival of an HTTP   *)
(* response, of a poll response, the firing of a timer, the completion of  *)
(* a media-engine promise, or a call made by the user of the client.  The  *)
(* synchronous code up to the next await, and the promise continuations    *)
(* (microtasks) it releases, belong to the same action.                    *)
(***************************************************************************)
EXTENDS Integers, Sequences, FiniteSets, TLC

\* ------------------------------------------------------------- bounds
MaxPubs == 2         \* longest publisher list carried by a room event
MaxFrames == 4       \* frames the media engine delivers to one sink
MaxSamples == 1500   \* longest PCM buffer handed to streamToJanus
MaxRequests == 2     \* speaker requests one participant submits
MaxHandlers == 3     \* occupancyUpdate handlers of the recorder in flight
MaxProcesses == 3    \* ffmpeg processes the recorder spawns

\* ------------------------------------------------- program constants
JoinTimeoutMs == 12000
DiscoverTimeoutMs == 8000
AttachedTimeoutMs == 8000
FRAME_SIZE == 480
StreamPauseMs == 10
StreamSampleRate == 48000

\* The subscribeSpeaker() calls made on the client: two, which may overlap.
Calls == {1, 2}
Users == {"alice", "bob"}
Undefined == 0
VideoRoom == "janus.plugin.videoroom"

\* The handle ids the gateway can hand out: one per attach request.
HandleIds == 1..(Cardinality(Calls) + 1)

VARIABLES
    sessionId,       \* this.sessionId (Undefined = 0)
    handleId,        \* this.handleId, the publisher handle
    publisherId,     \* this.publisherId
    pc,              \* this.pc: the publisher RTCPeerConnection
    localAudioSource,\* this.localAudioSource exists
    pollActive,      \* this.pollActive
    eventWaiters,    \* this.eventWaiters, as a sequence of waiter ids
    waiter,          \* per waiter id: the promise and the timer behind it
    timers,          \* waiter ids whose setTimeout is pending, in arming order
    poll,            \* position of doPoll
    init,            \* the initialize() call
    sub,             \* the subscribeSpeaker() calls
    subscribers,     \* this.subscribers: userId -> {handleId, pc}
    nextHandle,      \* the gateway's handle allocator
    stopped,         \* stop() has been called since initialize() was
    emitted,         \* notifications emitted by the last macrotask
    resolution,      \* resolve() calls of the last macrotask: waiter, event
    sink,            \* a JanusAudioSink and the frames that went through it
    stream,          \* a streamToJanus() call of the SttTtsPlugin
    participant,     \* a SpaceParticipant and the calls made on it
    space,           \* a Space: its plugins, its speakers, its initialize()
    recorder         \* an HlsRecordPlugin and its ffmpeg processes

\* The variables of the objects built around the client.
appVars == <<participant, space, recorder>>

\* The variables of the media bridge and of the objects around the client,
\* outside the JanusClient.
mediaVars == <<sink, stream, appVars>>

\* The variables of the JanusClient.
clientVars ==
    <<sessionId, handleId, publisherId, pc, localAudioSource, pollActive,
      eventWaiters, waiter, timers, poll, init, sub, subscribers, nextHandle,
      stopped, emitted, resolution>>

vars == <<sessionId, handleId, publisherId, pc, localAudioSource, pollActive,
          eventWaiters, waiter, timers, poll, init, sub, subscribers, nextHandle,
          stopped, emitted, resolution, mediaVars>>

\* ------------------------------------------------------------ events
\* A decoded poll payload.  An absent field is "none", Undefined or <<>>.
Evt(j, s, p, v, i, pubs, js, err) ==
    [janus |-> j, sender |-> s, plugin |-> p, videoroom |-> v, id |-> i,
     publishers |-> pubs, jsep |-> js, error |-> err]

Pub(i, d, u) == [id |-> i, display |-> d, periscope_user_id |-> u]

PubEntries ==
    { Pub(99, "alice", "u1"), Pub(98, "bob", "alice"), Pub(97, "carol", "u3") }

PubLists == UNION { [1..n -> PubEntries] : n \in 1..MaxPubs }

Events ==
    { Evt("keepalive", Undefined, "none", "none", Undefined, <<>>, "none", FALSE),
      Evt("none", 1, VideoRoom, "joined", 42, <<>>, "none", FALSE),
      Evt("webrtcup", 1, "none", "none", Undefined, <<>>, "none", FALSE),
      Evt("event", 1, VideoRoom, "joined", 42, <<>>, "none", FALSE),
      Evt("event", 1, VideoRoom, "joined", 43, <<>>, "none", TRUE),
      Evt("event", 1, "other.plugin", "joined", 43, <<>>, "none", FALSE),
      Evt("event", 1, VideoRoom, "event", Undefined, <<>>, "answer", FALSE),
      Evt("event", 1, VideoRoom, "event", Undefined, <<>>, "none", FALSE),
      Evt("error", Undefined, "none", "none", Undefined, <<>>, "none", TRUE),
      Evt("none", Undefined, "none", "none", Undefined, <<>>, "none", TRUE) }
    \cup { Evt("event", 1, VideoRoom, "event", Undefined, l, "none", FALSE) :
             l \in PubLists }
    \cup { Evt("event", h, VideoRoom, "attached", Undefined, <<>>, "offer", FALSE) :
             h \in HandleIds }
    \cup { Evt("event", h, VideoRoom, "attached", Undefined, <<>>, "none", FALSE) :
             h \in HandleIds }

\* The events of an established room: no second publisher id is announced.
SubEvents == { e \in Events : e.id \in {Undefined, 42} }

NoEvt == Evt("none", Undefined, "none", "none", Undefined, <<>>, "none", FALSE)

\* ----------------------------------------------------------- waiters
JoinW == <<0, "join">>
DiscW(c) == <<c, "disc">>
AttW(c) == <<c, "att">>
WaiterIds == {JoinW} \cup { DiscW(c) : c \in Calls } \cup { AttW(c) : c \in Calls }

NoErr == [kind |-> "none", description |-> "", timeoutMs |-> 0, userId |-> ""]

NoWaiter ==
    [status |-> "unregistered", settles |-> 0,
     evt |-> NoEvt, err |-> NoErr, sender |-> Undefined,
     timeoutMs |-> 0, description |-> ""]

\* The three predicates the client registers (joinRoom, and the two waits of
\* subscribeSpeaker; the last one closes over subscriberHandleId).
JoinedPredicate(e) ==
    /\ e.janus = "event"
    /\ e.plugin = VideoRoom
    /\ e.videoroom = "joined"

PublishersPredicate(e) ==
    /\ e.janus = "event"
    /\ e.plugin = VideoRoom
    /\ e.videoroom = "event"
    /\ Len(e.publishers) > 0

\* Variant of AttachedPredicate without the sender filter.
AttachedPredicateAnySender(subscriberHandleId, e) ==
    /\ e.janus = "event"
    /\ e.plugin = VideoRoom
    /\ e.videoroom = "attached"
    /\ e.jsep = "offer"

AttachedPredicate(subscriberHandleId, e) ==
    /\ e.janus = "event"
    /\ e.sender = subscriberHandleId
    /\ e.plugin = VideoRoom
    /\ e.videoroom = "attached"
    /\ e.jsep = "offer"

\* waiter.predicate(evt) for the waiter registered under id w.
Predicate(w, e) ==
    CASE w[2] = "join" -> JoinedPredicate(e)
      [] w[2] = "disc" -> PublishersPredicate(e)
      [] w[2] = "att" -> AttachedPredicate(waiter[w].sender, e)

\* Array.prototype.splice(i, 1), 1-based.
Splice(s, i) == [k \in 1..(Len(s) - 1) |-> IF k < i THEN s[k] ELSE s[k + 1]]

\* Array.prototype.indexOf, 1-based; 0 when absent (-1 in the code).
IndexOf(s, x) ==
    IF \E k \in 1..Len(s) : s[k] = x
    THEN CHOOSE k \in 1..Len(s) : s[k] = x /\ \A m \in 1..(k - 1) : s[m] # x
    ELSE 0

\* Variant of WaiterLoop without the break: every matching waiter is resolved.
RECURSIVE WaiterLoopResolveAll(_, _, _, _)
WaiterLoopResolveAll(i, ws, e, resolved) ==
    IF i > Len(ws) THEN [waiters |-> ws, resolved |-> resolved]
    ELSE IF Predicate(ws[i], e)
         THEN WaiterLoopResolveAll(i, Splice(ws, i), e, Append(resolved, ws[i]))
         ELSE WaiterLoopResolveAll(i + 1, ws, e, resolved)

\* The waiter loop of handleJanusEvent from index i on: the list left and the
\* waiters resolve() was called on.
RECURSIVE WaiterLoop(_, _, _, _)
WaiterLoop(i, ws, e, resolved) ==
    IF i > Len(ws) THEN [waiters |-> ws, resolved |-> resolved]
    ELSE IF Predicate(ws[i], e)
         THEN [waiters |-> Splice(ws, i), resolved |-> Append(resolved, ws[i])]
         ELSE WaiterLoop(i + 1, ws, e, resolved)

\* Variant of Discarded that lets every payload through.
DiscardedNever(e) == FALSE

\* handleJanusEvent returns before anything else for these payloads.
Discarded(e) == e.janus = "none" \/ e.janus = "keepalive"

\* What handleJanusEvent(e) does to the waiter list.
Dispatch(e) ==
    IF Discarded(e) THEN [waiters |-> eventWaiters, resolved |-> <<>>]
    ELSE WaiterLoop(1, eventWaiters, e, <<>>)

\* waiter.resolve(evt) on every waiter of the sequence rs.  The promise keeps
\* the event; the model keeps it for the waiter of joinRoom, whose caller may
\* read it in a later task (the two waits of subscribeSpeaker are read in the
\* task that resolves them).
Resolved(rs, e) ==
    [w \in WaiterIds |->
        LET n == Cardinality({k \in 1..Len(rs) : rs[k] = w}) IN
        IF n = 0 THEN waiter[w]
        ELSE [waiter[w] EXCEPT
                !.status = "resolved",
                !.evt = IF w = JoinW THEN e ELSE NoEvt,
                !.settles = waiter[w].settles + n]]

\* The resolve() calls as (waiter, event) pairs.
Resolutions(rs, e) == [k \in 1..Len(rs) |-> [w |-> rs[k], evt |-> e]]

\* The Error waitForJanusEvent rejects with.
TimeoutError(description, timeoutMs) ==
    [kind |-> "timeout", description |-> description, timeoutMs |-> timeoutMs,
     userId |-> ""]

\* The Error subscribeSpeaker throws when the publisher list has no entry.
NoPublisherError(userId) ==
    [kind |-> "noPublisher", description |-> "", timeoutMs |-> 0,
     userId |-> userId]

TransportError == [kind |-> "transport", description |-> "", timeoutMs |-> 0,
                   userId |-> ""]

EngineError == [kind |-> "engine", description |-> "", timeoutMs |-> 0,
                userId |-> ""]

\* waitForJanusEvent(predicate, timeoutMs, description): the waiter record
\* pushed; its timer is armed by appending the waiter id to timers.
NewWaiter(sender, timeoutMs, description) ==
    [NoWaiter EXCEPT !.status = "pending",
                     !.sender = sender, !.timeoutMs = timeoutMs,
                     !.description = description]

\* Variant of WaitForJanusEvent that inserts the waiter at the front (unshift).
WaitForJanusEventUnshift(w, sender, timeoutMs, description) ==
    /\ eventWaiters' = <<w>> \o eventWaiters
    /\ waiter' = [waiter EXCEPT ![w] = NewWaiter(sender, timeoutMs, description)]
    /\ timers' = Append(timers, w)

\* waitForJanusEvent(predicate, timeoutMs, description) up to the return of
\* its promise: the waiter is pushed and its timer armed.  w names the waiter;
\* sender is what the predicate closes over.
WaitForJanusEvent(w, sender, timeoutMs, description) ==
    /\ eventWaiters' = Append(eventWaiters, w)
    /\ waiter' = [waiter EXCEPT ![w] = NewWaiter(sender, timeoutMs, description)]
    /\ timers' = Append(timers, w)

\* Variant of TimerCallback that rejects without removing the waiter.
TimerCallbackKeepsWaiter(w) ==
    LET idx == IndexOf(eventWaiters, w) IN
    IF idx # 0
    THEN [waiters |-> eventWaiters,
          rec |-> [waiter[w] EXCEPT
                     !.status = "rejected",
                     !.settles = waiter[w].settles + 1,
                     !.err = TimeoutError(waiter[w].description,
                                          waiter[w].timeoutMs)]]
    ELSE [waiters |-> eventWaiters, rec |-> waiter[w]]

\* The timer callback of waiter w: the list and the waiter afterwards.
TimerCallback(w) ==
    LET idx == IndexOf(eventWaiters, w) IN
    IF idx # 0
    THEN [waiters |-> Splice(eventWaiters, idx),
          rec |-> [waiter[w] EXCEPT
                     !.status = "rejected",
                     !.settles = waiter[w].settles + 1,
                     !.err = TimeoutError(waiter[w].description,
                                          waiter[w].timeoutMs)]]
    ELSE [waiters |-> eventWaiters,
          rec |-> waiter[w]]

\* ------------------------------------------------------- initial state
NoPc == [exists |-> FALSE, localOffer |-> FALSE, remoteAnswer |-> FALSE,
         tracks |-> 0]
NewPc == [exists |-> TRUE, localOffer |-> FALSE, remoteAnswer |-> FALSE,
          tracks |-> 0]

\* Variant of EnableLocalAudioOn without the test of this.localAudioSource.
EnableLocalAudioOnAlways(p, source) ==
    IF ~p.exists THEN [pc |-> p, source |-> source]
    ELSE [pc |-> [p EXCEPT !.tracks = @ + 1], source |-> TRUE]

\* enableLocalAudio() with this.pc = p and a local source existing or not:
\* without a connection, or with a source, it returns; otherwise it creates
\* the source and adds its track to the connection.
EnableLocalAudioOn(p, source) ==
    IF ~p.exists THEN [pc |-> p, source |-> source]
    ELSE IF source THEN [pc |-> p, source |-> source]
    ELSE [pc |-> [p EXCEPT !.tracks = @ + 1], source |-> TRUE]

\* pushLocalAudio(): enableLocalAudio() is called when there is no source;
\* the frame reaches the source if there is one then.
PushLocalAudioOn(p, source) ==
    IF source THEN [pc |-> p, source |-> source]
    ELSE EnableLocalAudioOn(p, source)

NoSub ==
    [pc |-> "idle", userId |-> "", handle |-> Undefined, feedId |-> Undefined,
     sent |-> <<>>, subPc |-> "none", err |-> NoErr, failedAt |-> ""]

NoSubscriber == [handleId |-> Undefined, pcOpen |-> FALSE]

\* The frames the media engine delivers to a sink.
Frames == {"f1", "f2"}

\* new JanusAudioSink(track): active, nothing delivered to it yet.  delivered
\* lists the frames the engine handed to ondata, emitted the 'audioData'
\* events of the sink, atStop the number of frames delivered before stop().
NewSink == [active |-> TRUE, delivered |-> <<>>, emitted |-> <<>>, atStop |-> 0]

\* new SpaceParticipant(): no token, no speaker request, no call in flight.
\* listener is the position of joinAsListener(), request and cancel say
\* whether a requestSpeaker() or cancelSpeakerRequest() awaits its endpoint,
\* last is the outcome of the call made last, outstanding says that a speaker
\* request was submitted and not cancelled since.
NewParticipant ==
    [listener |-> "idle", authToken |-> FALSE, chatJwtToken |-> FALSE,
     chatToken |-> FALSE, sessionUUID |-> Undefined, nextUUID |-> 1,
     request |-> FALSE, cancel |-> FALSE,
     last |-> "none", outstanding |-> FALSE]

\* new Space(): not initialized, no plugin, no speaker.
\* The use() calls of one Space: each call adds its own registration.
Registrations == {"r1", "r2"}

\* The awaits of Space.initialize(), in order.
InitializeSteps ==
    <<"cookie", "region", "broadcast", "authorize", "turn", "janus",
      "publish", "chat">>

\* new Space(): nothing registered, nobody approved.  usedAt, initAt, inits
\* and approved record what happened and are not read by the program.
NewSpace ==
    [init |-> "idle", interactive |-> FALSE, isInitialized |-> FALSE,
     broadcastInfo |-> FALSE, authToken |-> FALSE,
     plugins |-> {}, hasInit |-> {},
     inits |-> [r \in Registrations |-> 0],
     usedAt |-> [r \in Registrations |-> "none"],
     initAt |-> [r \in Registrations |-> "none"],
     speakers |-> {}, approving |-> {}, approved |-> {}]

\* new HlsRecordPlugin()
NewRecorder ==
    [inited |-> FALSE, listening |-> FALSE, cleaned |-> FALSE,
     isRecording |-> FALSE, recordingProcess |-> 0, procs |-> <<>>,
     handlers |-> [h \in 1..MaxHandlers |-> "idle"]]

\* Nothing has been called on the objects around the client.
AppIdle ==
    /\ participant = NewParticipant
    /\ space = NewSpace
    /\ recorder = NewRecorder

\* No streamToJanus() call has been made.
NoStream ==
    [pc |-> "idle", n |-> 0, sampleRate |-> 0, offset |-> 0, pushed |-> <<>>,
     pauses |-> <<>>]

Init ==
    /\ sessionId = Undefined
    /\ handleId = Undefined
    /\ publisherId = Undefined
    /\ pc = NoPc
    /\ localAudioSource = FALSE
    /\ pollActive = FALSE
    /\ eventWaiters = <<>>
    /\ waiter = [w \in WaiterIds |-> NoWaiter]
    /\ timers = <<>>
    /\ poll = "idle"
    /\ init = [pc |-> "idle", err |-> NoErr, sent |-> <<>>, inflight |-> {}]
    /\ sub = [c \in Calls |-> NoSub]
    /\ subscribers = [u \in Users |-> NoSubscriber]
    /\ nextHandle = 1
    /\ stopped = FALSE
    /\ emitted = <<>>
    /\ resolution = <<>>
    /\ sink = NewSink
    /\ stream = NoStream
    /\ AppIdle

\* initialize() rejects with error err.
InitFailed(err) == [init EXCEPT !.pc = "failed", !.err = err, !.inflight = {}]

\* initialize(), in state st, issues request r with fetch() and awaits it at
\* position at.
InitIssue(st, r, at) ==
    [st EXCEPT !.pc = at, !.sent = Append(st.sent, r),
               !.inflight = st.inflight \cup {r}]

\* The HTTP response of request r has arrived.
InitGot(r) == [init EXCEPT !.inflight = init.inflight \ {r}]

\* ---------------------------------------------------------- initialize
\* initialize(): createSession() up to its fetch.
Initialize ==
    /\ init.pc = "idle"
    /\ init' = InitIssue(init, "create", "createSession")
    /\ emitted' = <<>>
    /\ resolution' = <<>>
    /\ UNCHANGED <<sessionId, handleId, publisherId, pc, localAudioSource,
                   pollActive, eventWaiters, waiter, timers, poll, sub,
                   subscribers, nextHandle,
                   stopped, mediaVars>>

\* createSession() returns json.data.id; attachPlugin() up to its fetch.
CreateSessionResponse(ok) ==
    /\ init.pc = "createSession"
    /\ "create" \in init.inflight
    /\ IF ok
       THEN /\ sessionId' = 1
            /\ init' = InitIssue(InitGot("create"), "attach", "attachPlugin")
       ELSE /\ init' = InitFailed(TransportError)
            /\ UNCHANGED sessionId
    /\ emitted' = <<>>
    /\ resolution' = <<>>
    /\ UNCHANGED <<handleId, publisherId, pc, localAudioSource, pollActive,
                   eventWaiters, waiter, timers, poll, sub, subscribers,
                   nextHandle,
                   stopped, mediaVars>>

\* Variant of JoinRoom that issues the join request without having
\* registered the waiter.
JoinRoomNoWaiter(st) ==
    /\ init' = InitIssue(st, "join", "joinAck")
    /\ UNCHANGED <<eventWaiters, waiter, timers>>

\* joinRoom() up to the await of sendJanusMessage: the waiter is registered,
\* then the join request is issued.
JoinRoom(st) ==
    /\ WaitForJanusEvent(JoinW, Undefined, JoinTimeoutMs, "Host Joined Event")
    /\ init' = InitIssue(st, "join", "joinAck")

\* Variant of AttachResponse in which createRoom() is not awaited: joinRoom()
\* runs while the create request is in flight.
AttachResponseNoAwait(ok) ==
    /\ init.pc = "attachPlugin"
    /\ "attach" \in init.inflight
    /\ IF ok
       THEN /\ handleId' = nextHandle
            /\ nextHandle' = nextHandle + 1
            /\ pollActive' = TRUE
            /\ poll' = "fetching"
            /\ JoinRoom(InitIssue(InitGot("attach"), "createRoom", "createRoom"))
       ELSE /\ init' = InitFailed(TransportError)
            /\ UNCHANGED <<handleId, nextHandle, pollActive, poll, eventWaiters,
                           waiter, timers>>
    /\ emitted' = <<>>
    /\ resolution' = <<>>
    /\ UNCHANGED <<sessionId, publisherId, pc, localAudioSource, sub,
                   subscribers,
                   stopped, mediaVars>>

\* attachPlugin() returns the handle id; pollActive = true; startPolling()
\* runs doPoll up to its fetch; createRoom() up to its fetch.
AttachResponse(ok) ==
    /\ init.pc = "attachPlugin"
    /\ "attach" \in init.inflight
    /\ IF ok
       THEN /\ handleId' = nextHandle
            /\ nextHandle' = nextHandle + 1
            /\ pollActive' = TRUE
            /\ poll' = "fetching"
            /\ init' = InitIssue(InitGot("attach"), "createRoom", "createRoom")
       ELSE /\ init' = InitFailed(TransportError)
            /\ UNCHANGED <<handleId, nextHandle, pollActive, poll>>
    /\ emitted' = <<>>
    /\ resolution' = <<>>
    /\ UNCHANGED <<sessionId, publisherId, pc, localAudioSource, eventWaiters,
                   waiter, timers, sub, subscribers,
                   stopped, mediaVars>>

\* Variant of CreateRoomResponse in which a failing initialize() clears
\* pollActive.
CreateRoomResponseStopsPolling(ok) ==
    /\ init.pc = "createRoom"
    /\ "createRoom" \in init.inflight
    /\ IF ok
       THEN JoinRoom(InitGot("createRoom")) /\ UNCHANGED pollActive
       ELSE /\ init' = InitFailed(TransportError)
            /\ pollActive' = FALSE
            /\ UNCHANGED <<eventWaiters, waiter, timers>>
    /\ emitted' = <<>>
    /\ resolution' = <<>>
    /\ UNCHANGED <<sessionId, handleId, publisherId, pc, localAudioSource,
                   poll, sub, subscribers, nextHandle, stopped, mediaVars>>

\* createRoom() returns when the response is ok and says "created"; joinRoom().
CreateRoomResponse(ok) ==
    /\ init.pc = "createRoom"
    /\ "createRoom" \in init.inflight
    /\ IF ok
       THEN JoinRoom(InitGot("createRoom"))
       ELSE /\ init' = InitFailed(TransportError)
            /\ UNCHANGED <<eventWaiters, waiter, timers>>
    /\ emitted' = <<>>
    /\ resolution' = <<>>
    /\ UNCHANGED <<sessionId, handleId, publisherId, pc, localAudioSource,
                   pollActive, poll, sub, subscribers, nextHandle,
                   stopped, mediaVars>>

\* initialize() after joinRoom() returned the event's plugindata.data.id: the
\* peer connection is created, enableLocalAudio() adds the source, and
\* configurePublisher() runs up to the await of createOffer().
AfterJoinRoom(st, e) ==
    /\ publisherId' = e.id
    /\ pc' = EnableLocalAudioOn(NewPc, localAudioSource).pc
    /\ localAudioSource' = EnableLocalAudioOn(NewPc, localAudioSource).source
    /\ init' = [st EXCEPT !.pc = "createOffer"]

\* Variant of JoinAck in which joinRoom returns on the HTTP response without
\* awaiting evtPromise.
JoinAckNoWait(ok) ==
    /\ init.pc = "joinAck"
    /\ "join" \in init.inflight
    /\ IF ok THEN AfterJoinRoom(InitGot("join"), waiter[JoinW].evt)
       ELSE /\ init' = InitFailed(TransportError)
            /\ UNCHANGED <<publisherId, pc, localAudioSource>>
    /\ emitted' = <<>>
    /\ resolution' = <<>>
    /\ UNCHANGED <<sessionId, handleId, pollActive, eventWaiters, waiter, timers,
                   poll, sub, subscribers, nextHandle,
                   stopped, mediaVars>>

\* The join request's HTTP response; then joinRoom awaits evtPromise, which may
\* be settled already.
JoinAck(ok) ==
    /\ init.pc = "joinAck"
    /\ "join" \in init.inflight
    /\ LET st == InitGot("join") IN
       IF ~ok
       THEN /\ init' = InitFailed(TransportError)
            /\ UNCHANGED <<publisherId, pc, localAudioSource>>
       ELSE CASE waiter[JoinW].status = "resolved" ->
                   AfterJoinRoom(st, waiter[JoinW].evt)
              [] waiter[JoinW].status = "rejected" ->
                   /\ init' = InitFailed(waiter[JoinW].err)
                   /\ UNCHANGED <<publisherId, pc, localAudioSource>>
              [] OTHER ->
                   /\ init' = [st EXCEPT !.pc = "joinEvt"]
                   /\ UNCHANGED <<publisherId, pc, localAudioSource>>
    /\ emitted' = <<>>
    /\ resolution' = <<>>
    /\ UNCHANGED <<sessionId, handleId, pollActive, eventWaiters, waiter, timers,
                   poll, sub, subscribers, nextHandle,
                   stopped, mediaVars>>

\* configurePublisher(): createOffer() settled; setLocalDescription(offer) is
\* called on this.pc, which stop() may have cleared meanwhile.
CreateOfferDone(ok) ==
    /\ init.pc = "createOffer"
    /\ init' = IF ok /\ pc.exists THEN [init EXCEPT !.pc = "setLocal"]
               ELSE InitFailed(EngineError)
    /\ emitted' = <<>>
    /\ resolution' = <<>>
    /\ UNCHANGED <<sessionId, handleId, publisherId, pc, localAudioSource,
                   pollActive, eventWaiters, waiter, timers, poll, sub,
                   subscribers, nextHandle,
                   stopped, mediaVars>>

\* configurePublisher(): setLocalDescription settled; the configure request
\* is issued with the offer as jsep.
SetLocalDone(ok) ==
    /\ init.pc = "setLocal"
    /\ IF ok
       THEN /\ init' = InitIssue(init, "configure", "configure")
            /\ pc' = IF pc.exists THEN [pc EXCEPT !.localOffer = TRUE] ELSE pc
       ELSE /\ init' = InitFailed(EngineError)
            /\ UNCHANGED pc
    /\ emitted' = <<>>
    /\ resolution' = <<>>
    /\ UNCHANGED <<sessionId, handleId, publisherId, localAudioSource,
                   pollActive, eventWaiters, waiter, timers, poll, sub,
                   subscribers, nextHandle,
                   stopped, mediaVars>>

\* Variant of ConfigureAck in which sendJanusMessage does not look at resp.ok.
ConfigureAckIgnoresStatus(ok) ==
    /\ init.pc = "configure"
    /\ "configure" \in init.inflight
    /\ init' = [InitGot("configure") EXCEPT !.pc = "done"]
    /\ emitted' = <<>>
    /\ resolution' = <<>>
    /\ UNCHANGED <<sessionId, handleId, publisherId, pc, localAudioSource,
                   pollActive, eventWaiters, waiter, timers, poll, sub,
                   subscribers, nextHandle, stopped, mediaVars>>

\* The configure request's HTTP response: configurePublisher() returns and
\* initialize() logs 'Initialization complete'.
ConfigureAck(ok) ==
    /\ init.pc = "configure"
    /\ "configure" \in init.inflight
    /\ init' = IF ok
               THEN [InitGot("configure") EXCEPT !.pc = "done"]
               ELSE InitFailed(TransportError)
    /\ emitted' = <<>>
    /\ resolution' = <<>>
    /\ UNCHANGED <<sessionId, handleId, publisherId, pc, localAudioSource,
                   pollActive, eventWaiters, waiter, timers, poll, sub,
                   subscribers, nextHandle,
                   stopped, mediaVars>>

\* ------------------------------------------ responses that carry no id
\* The error of the guards of attachPlugin, createRoom and joinRoom.
NoHandleError == [kind |-> "noSessionOrHandle", description |-> "",
                  timeoutMs |-> 0, userId |-> ""]

\* createSession() returns a success response whose data.id is 0 or absent:
\* this.sessionId stays falsy and attachPlugin() throws at its guard.
CreateSessionResponseNoId ==
    /\ init.pc = "createSession"
    /\ "create" \in init.inflight
    /\ init' = InitFailed(NoHandleError)
    /\ emitted' = <<>>
    /\ resolution' = <<>>
    /\ UNCHANGED <<sessionId, handleId, publisherId, pc, localAudioSource,
                   pollActive, eventWaiters, waiter, timers, poll, sub,
                   subscribers, nextHandle, stopped, mediaVars>>

\* Variant of AttachResponseNoId in which createRoom() has no guard and
\* issues its request.
AttachResponseNoIdUnguarded ==
    /\ init.pc = "attachPlugin"
    /\ "attach" \in init.inflight
    /\ pollActive' = TRUE
    /\ poll' = "fetching"
    /\ init' = InitIssue(InitGot("attach"), "createRoom", "createRoom")
    /\ emitted' = <<>>
    /\ resolution' = <<>>
    /\ UNCHANGED <<sessionId, handleId, publisherId, pc, localAudioSource,
                   eventWaiters, waiter, timers, sub, subscribers, nextHandle,
                   stopped, mediaVars>>

\* attachPlugin() returns a success response whose data.id is 0 or absent:
\* this.handleId stays falsy, polling starts, and createRoom() throws at its
\* guard.
AttachResponseNoId ==
    /\ init.pc = "attachPlugin"
    /\ "attach" \in init.inflight
    /\ pollActive' = TRUE
    /\ poll' = "fetching"
    /\ init' = InitFailed(NoHandleError)
    /\ emitted' = <<>>
    /\ resolution' = <<>>
    /\ UNCHANGED <<sessionId, handleId, publisherId, pc, localAudioSource,
                   eventWaiters, waiter, timers, sub, subscribers, nextHandle,
                   stopped, mediaVars>>

\* ------------------------------------------------ initializeGuestSpeaker
\* initializeGuestSpeaker(): createSession() up to its fetch.
InitializeGuestSpeaker ==
    /\ init.pc = "idle"
    /\ init' = InitIssue(init, "create", "guestCreateSession")
    /\ emitted' = <<>>
    /\ resolution' = <<>>
    /\ UNCHANGED <<sessionId, handleId, publisherId, pc, localAudioSource,
                   pollActive, eventWaiters, waiter, timers, poll, sub,
                   subscribers, nextHandle, stopped, mediaVars>>

\* createSession() returned to the guest path; attachPlugin() up to its fetch.
GuestCreateSessionResponse(ok) ==
    /\ init.pc = "guestCreateSession"
    /\ "create" \in init.inflight
    /\ IF ok
       THEN /\ sessionId' = 1
            /\ init' = InitIssue(InitGot("create"), "attach", "guestAttachPlugin")
       ELSE /\ init' = InitFailed(TransportError)
            /\ UNCHANGED sessionId
    /\ emitted' = <<>>
    /\ resolution' = <<>>
    /\ UNCHANGED <<handleId, publisherId, pc, localAudioSource, pollActive,
                   eventWaiters, waiter, timers, poll, sub, subscribers,
                   nextHandle, stopped, mediaVars>>

\* attachPlugin() returned to the guest path: polling starts and, the room
\* existing already, joinRoom() runs at once.
GuestAttachResponse(ok) ==
    /\ init.pc = "guestAttachPlugin"
    /\ "attach" \in init.inflight
    /\ IF ok
       THEN /\ handleId' = nextHandle
            /\ nextHandle' = nextHandle + 1
            /\ pollActive' = TRUE
            /\ poll' = "fetching"
            /\ JoinRoom(InitGot("attach"))
       ELSE /\ init' = InitFailed(TransportError)
            /\ UNCHANGED <<handleId, nextHandle, pollActive, poll, eventWaiters,
                           waiter, timers>>
    /\ emitted' = <<>>
    /\ resolution' = <<>>
    /\ UNCHANGED <<sessionId, publisherId, pc, localAudioSource, sub,
                   subscribers, stopped, mediaVars>>

\* ----------------------------------------------------- subscribeSpeaker
\* subscribeSpeaker() rejects with err while at position st.pc; its locals
\* (handle, feed id, peer connection) go out of scope.
SubFailed(st, err) ==
    [NoSub EXCEPT !.pc = "failed", !.userId = st.userId, !.err = err,
                  !.failedAt = st.pc]

NoSessionError == [kind |-> "noSession", description |-> "", timeoutMs |-> 0,
                   userId |-> ""]

\* list.find(p => p.display === userId || p.periscope_user_id === userId):
\* the 1-based index of the entry found, 0 for undefined.
RECURSIVE FindFrom(_, _, _)
FindFrom(i, list, userId) ==
    IF i > Len(list) THEN 0
    ELSE IF list[i].display = userId \/ list[i].periscope_user_id = userId
         THEN i
         ELSE FindFrom(i + 1, list, userId)

\* Variant of Find that compares the display field only.
FindDisplayOnly(list, userId) ==
    IF \E i \in 1..Len(list) : list[i].display = userId
    THEN CHOOSE i \in 1..Len(list) :
            /\ list[i].display = userId
            /\ \A k \in 1..(i - 1) : list[k].display # userId
    ELSE 0

Find(list, userId) == FindFrom(1, list, userId)

\* Variant of SubscribeSpeaker that rejects a userId which has a recorded
\* subscription.
SubscribeSpeakerRejectsDuplicate(c, userId) ==
    /\ sub[c].pc = "idle"
    /\ \A d \in Calls : d < c => sub[d].pc # "idle"
    /\ sub' = [sub EXCEPT ![c] =
                 IF sessionId = Undefined
                 THEN SubFailed([sub[c] EXCEPT !.userId = userId], NoSessionError)
                 ELSE IF subscribers[userId] # NoSubscriber
                 THEN SubFailed([sub[c] EXCEPT !.userId = userId], [NoSessionError EXCEPT !.kind = "duplicate"])
                 ELSE [sub[c] EXCEPT !.pc = "attach", !.userId = userId,
                                     !.sent = <<[request |-> "attach",
                                                 handle |-> Undefined,
                                                 feed |-> Undefined]>>]]
    /\ emitted' = <<>>
    /\ resolution' = <<>>
    /\ UNCHANGED <<sessionId, handleId, publisherId, pc, localAudioSource,
                   pollActive, eventWaiters, waiter, timers, poll, init,
                   subscribers, nextHandle, stopped, mediaVars>>

\* subscribeSpeaker(userId), call c: attachPlugin() up to its fetch, or its
\* throw when there is no session.
SubscribeSpeaker(c, userId) ==
    /\ sub[c].pc = "idle"
    /\ \A d \in Calls : d < c => sub[d].pc # "idle"
    /\ sub' = [sub EXCEPT ![c] =
                 IF sessionId = Undefined
                 THEN SubFailed([sub[c] EXCEPT !.userId = userId], NoSessionError)
                 ELSE [sub[c] EXCEPT !.pc = "attach", !.userId = userId,
                                     !.sent = <<[request |-> "attach",
                                                 handle |-> Undefined,
                                                 feed |-> Undefined]>>]]
    /\ emitted' = <<>>
    /\ resolution' = <<>>
    /\ UNCHANGED <<sessionId, handleId, publisherId, pc, localAudioSource,
                   pollActive, eventWaiters, waiter, timers, poll, init,
                   subscribers, nextHandle,
                   stopped, mediaVars>>

\* attachPlugin() returns subscriberHandleId; the discovery waiter is
\* registered.
SubAttachResponse(c, ok) ==
    /\ sub[c].pc = "attach"
    /\ IF ok
       THEN /\ sub' = [sub EXCEPT ![c] = [sub[c] EXCEPT !.pc = "discover",
                                                      !.handle = nextHandle]]
            /\ nextHandle' = nextHandle + 1
            /\ WaitForJanusEvent(DiscW(c), Undefined, DiscoverTimeoutMs,
                                 "discover feed_id from \"publishers\"")
       ELSE /\ sub' = [sub EXCEPT ![c] = SubFailed(sub[c], TransportError)]
            /\ UNCHANGED <<nextHandle, eventWaiters, waiter, timers>>
    /\ emitted' = <<>>
    /\ resolution' = <<>>
    /\ UNCHANGED <<sessionId, handleId, publisherId, pc, localAudioSource,
                   pollActive, poll, init, subscribers,
                   stopped, mediaVars>>

\* Variant of AfterDiscover that sends the subscriber join on the publisher
\* handle.
AfterDiscoverOnPublisherHandle(st, e) ==
    LET idx == Find(e.publishers, st.userId) IN
    IF idx = 0 THEN SubFailed(st, NoPublisherError(st.userId))
    ELSE [st EXCEPT !.pc = "join", !.feedId = e.publishers[idx].id,
                    !.sent = Append(st.sent,
                                    [request |-> "join", handle |-> handleId,
                                     feed |-> e.publishers[idx].id])]

\* subscribeSpeaker after the discovery wait resolved with event e: the feed
\* is looked up, announced, and the subscriber join is issued.
AfterDiscover(st, e) ==
    LET idx == Find(e.publishers, st.userId) IN
    IF idx = 0 THEN SubFailed(st, NoPublisherError(st.userId))
    ELSE [st EXCEPT !.pc = "join", !.feedId = e.publishers[idx].id,
                    !.sent = Append(st.sent,
                                    [request |-> "join", handle |-> st.handle,
                                     feed |-> e.publishers[idx].id])]

\* The 'subscribedSpeaker' notification of a call whose discovery succeeded.
Announced(before, after) ==
    IF before.pc = "discover" /\ after.pc = "join"
    THEN <<[name |-> "subscribedSpeaker", userId |-> after.userId,
            feedId |-> after.feedId]>>
    ELSE <<>>

\* subscribeSpeaker after the attached wait resolved: the subscriber peer
\* connection is created and setRemoteDescription(offer) awaited.
AfterAttached(st, e) == [st EXCEPT !.pc = "setRemote", !.subPc = "new"]

\* The HTTP response of the subscriber join; the attached waiter is registered.
SubJoinAck(c, ok) ==
    /\ sub[c].pc = "join"
    /\ IF ok
       THEN /\ sub' = [sub EXCEPT ![c] = [sub[c] EXCEPT !.pc = "attached"]]
            /\ WaitForJanusEvent(AttW(c), sub[c].handle, AttachedTimeoutMs,
                                 "subscriber attached + offer")
       ELSE /\ sub' = [sub EXCEPT ![c] = SubFailed(sub[c], TransportError)]
            /\ UNCHANGED <<eventWaiters, waiter, timers>>
    /\ emitted' = <<>>
    /\ resolution' = <<>>
    /\ UNCHANGED <<sessionId, handleId, publisherId, pc, localAudioSource,
                   pollActive, poll, init, subscribers, nextHandle,
                   stopped, mediaVars>>

\* Variant of SubEngineDone that records the subscription when it issues the
\* start request, before the request is acknowledged.
SubEngineDoneRecordsEarly(c, ok) ==
    /\ sub[c].pc \in {"setRemote", "createAnswer", "setLocal"}
    /\ sub' = [sub EXCEPT ![c] =
         IF ~ok THEN SubFailed(sub[c], EngineError)
         ELSE CASE sub[c].pc = "setRemote" ->
                     [sub[c] EXCEPT !.pc = "createAnswer",
                                    !.subPc = "have-remote-offer"]
                [] sub[c].pc = "createAnswer" ->
                     [sub[c] EXCEPT !.pc = "setLocal"]
                [] sub[c].pc = "setLocal" ->
                     [sub[c] EXCEPT !.pc = "start", !.subPc = "stable",
                                    !.sent = Append(sub[c].sent,
                                        [request |-> "start",
                                         handle |-> sub[c].handle,
                                         feed |-> Undefined])]]
    /\ subscribers' = IF ok /\ sub[c].pc = "setLocal"
                      THEN [subscribers EXCEPT
                              ![sub[c].userId] = [handleId |-> sub[c].handle,
                                                  pcOpen |-> TRUE]]
                      ELSE subscribers
    /\ emitted' = <<>>
    /\ resolution' = <<>>
    /\ UNCHANGED <<sessionId, handleId, publisherId, pc, localAudioSource,
                   pollActive, eventWaiters, waiter, timers, poll, init,
                   nextHandle, stopped, mediaVars>>

\* A media-engine promise of the subscriber connection settled:
\* setRemoteDescription(offer), createAnswer(), setLocalDescription(answer);
\* after the last one the start request is issued with the answer.
SubEngineDone(c, ok) ==
    /\ sub[c].pc \in {"setRemote", "createAnswer", "setLocal"}
    /\ sub' = [sub EXCEPT ![c] =
         IF ~ok THEN SubFailed(sub[c], EngineError)
         ELSE CASE sub[c].pc = "setRemote" ->
                     [sub[c] EXCEPT !.pc = "createAnswer",
                                    !.subPc = "have-remote-offer"]
                [] sub[c].pc = "createAnswer" ->
                     [sub[c] EXCEPT !.pc = "setLocal"]
                [] sub[c].pc = "setLocal" ->
                     [sub[c] EXCEPT !.pc = "start", !.subPc = "stable",
                                    !.sent = Append(sub[c].sent,
                                        [request |-> "start",
                                         handle |-> sub[c].handle,
                                         feed |-> Undefined])]]
    /\ emitted' = <<>>
    /\ resolution' = <<>>
    /\ UNCHANGED <<sessionId, handleId, publisherId, pc, localAudioSource,
                   pollActive, eventWaiters, waiter, timers, poll, init,
                   subscribers, nextHandle,
                   stopped, mediaVars>>

\* The HTTP response of start: the subscription is recorded.
SubStartAck(c, ok) ==
    /\ sub[c].pc = "start"
    /\ IF ok
       THEN /\ sub' = [sub EXCEPT ![c] = [sub[c] EXCEPT !.pc = "done"]]
            /\ subscribers' = [subscribers EXCEPT
                                 ![sub[c].userId] =
                                     [handleId |-> sub[c].handle,
                                      pcOpen |-> TRUE]]
       ELSE /\ sub' = [sub EXCEPT ![c] = SubFailed(sub[c], TransportError)]
            /\ UNCHANGED subscribers
    /\ emitted' = <<>>
    /\ resolution' = <<>>
    /\ UNCHANGED <<sessionId, handleId, publisherId, pc, localAudioSource,
                   pollActive, eventWaiters, waiter, timers, poll, init,
                   nextHandle,
                   stopped, mediaVars>>

\* The 'audioDataFromSpeaker' notification of the sink listener that the
\* ontrack handler of a subscribeSpeaker(userId) call installs.
AudioDataFromSpeaker(userId) ==
    <<[name |-> "audioDataFromSpeaker", userId |-> userId, feedId |-> Undefined]>>

\* The userId of the subscribeSpeaker call that started last.
RECURSIVE LastUserFrom(_)
LastUserFrom(c) ==
    IF c \notin Calls THEN ""
    ELSE IF sub[c].pc # "idle" /\ LastUserFrom(c + 1) = "" THEN sub[c].userId
    ELSE LastUserFrom(c + 1)

\* Variant of SpeakerFrame in which the listeners share one userId, that of
\* the call that started last.
SpeakerFrameSharedUser(c) ==
    /\ sub[c].subPc \in {"have-remote-offer", "stable"}
    /\ emitted' = AudioDataFromSpeaker(LastUserFrom(1))
    /\ resolution' = <<>>
    /\ UNCHANGED <<sessionId, handleId, publisherId, pc, localAudioSource,
                   pollActive, eventWaiters, waiter, timers, poll, init, sub,
                   subscribers, nextHandle, stopped, mediaVars>>

\* The media engine delivers a frame of the inbound track of call c's
\* subscriber connection, once that connection has its remote description:
\* the sink emits 'audioData' and the listener re-emits it with the userId it
\* closed over.
SpeakerFrame(c) ==
    /\ sub[c].subPc \in {"have-remote-offer", "stable"}
    /\ emitted' = AudioDataFromSpeaker(sub[c].userId)
    /\ resolution' = <<>>
    /\ UNCHANGED <<sessionId, handleId, publisherId, pc, localAudioSource,
                   pollActive, eventWaiters, waiter, timers, poll, init, sub,
                   subscribers, nextHandle, stopped, mediaVars>>

\* ------------------------------------------------------------ the poll
\* Variant of OnReceivedAnswer without the test of this.pc.
OnReceivedAnswerUnguarded(p) == [p EXCEPT !.remoteAnswer = TRUE]

\* onReceivedAnswer(jsep), called for an event whose jsep is an answer.
OnReceivedAnswer(p) == IF p.exists THEN [p EXCEPT !.remoteAnswer = TRUE] ELSE p

\* The 'error' notification of handleJanusEvent.
ErrorEmitted(e) ==
    IF ~Discarded(e) /\ e.error THEN <<[name |-> "error", userId |-> "",
                                        feedId |-> Undefined]>>
    ELSE <<>>

\* The subscribeSpeaker call c after waiters rs were resolved with e.
SubResumed(c, rs, e) ==
    CASE sub[c].pc = "discover" /\ (\E k \in 1..Len(rs) : rs[k] = DiscW(c)) ->
            AfterDiscover(sub[c], e)
      [] sub[c].pc = "attached" /\ (\E k \in 1..Len(rs) : rs[k] = AttW(c)) ->
            AfterAttached(sub[c], e)
      [] OTHER -> sub[c]

\* Concatenation of the notifications of all calls, in call order.
RECURSIVE AnnouncedFrom(_, _)
AnnouncedFrom(c, after) ==
    IF c \notin Calls THEN <<>>
    ELSE Announced(sub[c], after[c]) \o AnnouncedFrom(c + 1, after)

\* handleJanusEvent(e), and the continuations of the waiter it resolved.
HandleJanusEvent(e) ==
    LET d == Dispatch(e)
        rs == d.resolved
        after == [c \in Calls |-> SubResumed(c, rs, e)]
    IN
    /\ eventWaiters' = d.waiters
    /\ waiter' = Resolved(rs, e)
    /\ sub' = after
    /\ emitted' = ErrorEmitted(e) \o AnnouncedFrom(1, after)
    /\ resolution' = Resolutions(rs, e)
    /\ IF init.pc = "joinEvt" /\ (\E k \in 1..Len(rs) : rs[k] = JoinW)
       THEN AfterJoinRoom(init, e)
       ELSE /\ pc' = IF ~Discarded(e) /\ e.jsep = "answer"
                     THEN OnReceivedAnswer(pc) ELSE pc
            /\ publisherId' = IF ~Discarded(e) /\ e.id # Undefined
                              THEN e.id ELSE publisherId
            /\ UNCHANGED <<init, localAudioSource>>

\* Variant of PollResponse in which doPoll calls itself at once instead of
\* through setTimeout(doPoll, 500).
PollResponseNoDelay(e) ==
    /\ poll = "fetching"
    /\ HandleJanusEvent(e)
    /\ poll' = IF ~pollActive \/ sessionId = Undefined THEN "ended"
               ELSE "fetching"
    /\ UNCHANGED <<sessionId, handleId, pollActive, timers, subscribers,
                   nextHandle, stopped, mediaVars>>

\* doPoll: the long-poll response is ok and decodes to event e.
PollResponse(e) ==
    /\ poll = "fetching"
    /\ HandleJanusEvent(e)
    /\ poll' = "delay"
    /\ UNCHANGED <<sessionId, handleId, pollActive, timers, subscribers,
                   nextHandle,
                   stopped, mediaVars>>

\* Variant of PollFailed in which the failure ends doPoll before it arms the
\* timer of the next iteration.
PollFailedEndsLoop ==
    /\ poll = "fetching"
    /\ poll' = "ended"
    /\ emitted' = <<>>
    /\ resolution' = <<>>
    /\ UNCHANGED <<sessionId, handleId, publisherId, pc, localAudioSource,
                   pollActive, eventWaiters, waiter, timers, init, sub,
                   subscribers, nextHandle, stopped, mediaVars>>

\* doPoll: the response is not ok, or fetch / json() threw.
PollFailed ==
    /\ poll = "fetching"
    /\ poll' = "delay"
    /\ emitted' = <<>>
    /\ resolution' = <<>>
    /\ UNCHANGED <<sessionId, handleId, publisherId, pc, localAudioSource,
                   pollActive, eventWaiters, waiter, timers, init, sub,
                   subscribers, nextHandle,
                   stopped, mediaVars>>

\* setTimeout(doPoll, 500) fires: doPoll runs up to its fetch, or returns.
PollTimer ==
    /\ poll = "delay"
    /\ poll' = IF ~pollActive \/ sessionId = Undefined THEN "ended"
               ELSE "fetching"
    /\ emitted' = <<>>
    /\ resolution' = <<>>
    /\ UNCHANGED <<sessionId, handleId, publisherId, pc, localAudioSource,
                   pollActive, eventWaiters, waiter, timers, init, sub,
                   subscribers, nextHandle,
                   stopped, mediaVars>>

\* ---------------------------------------------------------- the timers
\* Timers fire in deadline order: the timer of w can be the next to fire when
\* every timer armed before it and still pending has a longer delay.
TimerDue(w) ==
    /\ IndexOf(timers, w) # 0
    /\ \A k \in 1..(IndexOf(timers, w) - 1) :
          waiter[timers[k]].timeoutMs > waiter[w].timeoutMs

\* Variant of TimerFires in which the rejection does not reach the caller
\* awaiting the waiter.
TimerFiresLeavesCaller(w) ==
    /\ TimerDue(w)
    /\ timers' = Splice(timers, IndexOf(timers, w))
    /\ eventWaiters' = TimerCallback(w).waiters
    /\ waiter' = [waiter EXCEPT ![w] = TimerCallback(w).rec]
    /\ emitted' = <<>>
    /\ resolution' = <<>>
    /\ UNCHANGED <<sessionId, handleId, publisherId, pc, localAudioSource,
                   pollActive, poll, init, sub, subscribers, nextHandle, stopped, mediaVars>>

\* The setTimeout callback of waiter w, and the continuation of the caller it
\* rejects.
TimerFires(w) ==
    /\ TimerDue(w)
    /\ timers' = Splice(timers, IndexOf(timers, w))
    /\ LET r == TimerCallback(w)
           rejected == r.rec.settles # waiter[w].settles
       IN
       /\ eventWaiters' = r.waiters
       /\ waiter' = [waiter EXCEPT ![w] = r.rec]
       /\ init' = IF rejected /\ w = JoinW /\ init.pc = "joinEvt"
                  THEN InitFailed(r.rec.err) ELSE init
       /\ sub' = [c \in Calls |->
                    IF /\ rejected
                       /\ \/ w = DiscW(c) /\ sub[c].pc = "discover"
                          \/ w = AttW(c) /\ sub[c].pc = "attached"
                    THEN SubFailed(sub[c], r.rec.err)
                    ELSE sub[c]]
    /\ emitted' = <<>>
    /\ resolution' = <<>>
    /\ UNCHANGED <<sessionId, handleId, publisherId, pc, localAudioSource,
                   pollActive, poll, subscribers, nextHandle,
                   stopped, mediaVars>>

\* ---------------------------------------------------------------- stop
\* stop(): the poll flag is cleared and the publisher connection closed.  On a
\* client whose initialize() was never called it changes nothing.
Stop ==
    /\ pollActive' = FALSE
    /\ pc' = NoPc
    /\ stopped' = (init.pc # "idle")
    /\ emitted' = <<>>
    /\ resolution' = <<>>
    /\ UNCHANGED <<sessionId, handleId, publisherId, localAudioSource,
                   eventWaiters, waiter, timers, poll, init, sub, subscribers,
                   nextHandle, mediaVars>>

\* ------------------------------------------------------- the audio sink
\* Variant of SinkOnData that forwards the frame whether or not the sink is
\* active.
SinkOnDataIgnoresActive(f) ==
    /\ Len(sink.delivered) < MaxFrames
    /\ sink' = [sink EXCEPT !.delivered = Append(@, f),
                            !.emitted = Append(@, f)]
    /\ UNCHANGED <<clientVars, stream, appVars>>

\* sink.ondata(frame), called by the media engine, which may still have
\* callbacks queued when stop() is called: an inactive sink returns, an active
\* one emits 'audioData'.
SinkOnData(f) ==
    /\ Len(sink.delivered) < MaxFrames
    /\ sink' = [sink EXCEPT !.delivered = Append(@, f),
                            !.emitted = IF sink.active THEN Append(@, f) ELSE @]
    /\ UNCHANGED <<clientVars, stream, appVars>>

\* JanusAudioSink.stop()
SinkStop ==
    /\ sink' = [sink EXCEPT !.active = FALSE,
                            !.atStop = IF sink.active THEN Len(sink.delivered)
                                       ELSE @]
    /\ UNCHANGED <<clientVars, stream, appVars>>

\* ------------------------------------------------------ streamToJanus
\* Variant of StreamContinues that goes on while any sample is left.
StreamContinuesWhileLeft(offset, n) == offset < n

\* The condition of the for loop of streamToJanus.
StreamContinues(offset, n) == offset + FRAME_SIZE <= n

\* The frame built at offset: a new Int16Array(FRAME_SIZE) into which
\* samples.subarray(offset, offset + FRAME_SIZE) is copied; subarray stops at
\* the end of the buffer.
StreamFrame(st) ==
    [offset |-> st.offset, length |-> FRAME_SIZE,
     copied |-> IF st.n - st.offset < FRAME_SIZE THEN st.n - st.offset
                ELSE FRAME_SIZE,
     sampleRate |-> st.sampleRate, channels |-> 1]

\* One pass of the loop from its test: either the loop ends, or a frame is
\* handed to pushLocalAudio() and the pause timer armed.  pushLocalAudio
\* creates the local source when there is none and a connection exists, and
\* hands the frame to the source if there is one.
StreamLoop(st) ==
    IF StreamContinues(st.offset, st.n)
    THEN LET r == PushLocalAudioOn(pc, localAudioSource) IN
         /\ pc' = r.pc
         /\ localAudioSource' = r.source
         /\ stream' = [st EXCEPT !.pc = "pause",
                                 !.pushed = IF r.source
                                            THEN Append(@, StreamFrame(st))
                                            ELSE @,
                                 !.pauses = Append(@, StreamPauseMs)]
    ELSE /\ stream' = [st EXCEPT !.pc = "done"]
         /\ UNCHANGED <<pc, localAudioSource>>

\* streamToJanus(samples, 48000) with a buffer of n samples, up to its first
\* pause.
StreamToJanus(n) ==
    /\ stream.pc = "idle"
    /\ StreamLoop([stream EXCEPT !.n = n, !.sampleRate = StreamSampleRate,
                                 !.offset = 0])
    /\ UNCHANGED <<sessionId, handleId, publisherId, pollActive,
                   eventWaiters, waiter, timers, poll, init, sub, subscribers,
                   nextHandle, stopped, emitted, resolution, sink, appVars>>

\* The pause timer fires: offset += FRAME_SIZE and the loop goes on.
StreamPauseElapsed ==
    /\ stream.pc = "pause"
    /\ StreamLoop([stream EXCEPT !.offset = @ + FRAME_SIZE])
    /\ UNCHANGED <<sessionId, handleId, publisherId, pollActive,
                   eventWaiters, waiter, timers, poll, init, sub, subscribers,
                   nextHandle, stopped, emitted, resolution, sink, appVars>>

\* enableLocalAudio(), called by the application.
EnableLocalAudio ==
    /\ pc' = EnableLocalAudioOn(pc, localAudioSource).pc
    /\ localAudioSource' = EnableLocalAudioOn(pc, localAudioSource).source
    /\ emitted' = <<>>
    /\ resolution' = <<>>
    /\ UNCHANGED <<sessionId, handleId, publisherId, pollActive, eventWaiters,
                   waiter, timers, poll, init, sub, subscribers, nextHandle,
                   stopped, mediaVars>>

\* ---------------------------------------------------- SpaceParticipant
\* joinAsListener() is called: getPeriscopeCookie() is awaited.
JoinAsListener ==
    /\ participant.listener = "idle"
    /\ participant' = [participant EXCEPT !.listener = "cookie",
                                          !.last = "joinAsListener"]
    /\ UNCHANGED <<clientVars, sink, stream, space, recorder>>

\* An await of joinAsListener() settles.  r is "ok", "fail" (the call
\* rejected) or "empty" (the response lacks the field read from it: the
\* media key of the metadata, the chatToken of the stream status).
ListenerStep(r) ==
    /\ participant.listener \in {"cookie", "authorize", "metadata", "status",
                                 "accessChat", "connect", "watch"}
    /\ r = "empty" => participant.listener \in {"metadata", "status"}
    /\ participant' =
         IF r = "fail" THEN [participant EXCEPT !.listener = "failed"]
         ELSE CASE participant.listener = "cookie" ->
                     [participant EXCEPT !.listener = "authorize"]
                [] participant.listener = "authorize" ->
                     [participant EXCEPT !.listener = "metadata",
                                         !.authToken = TRUE]
                [] participant.listener = "metadata" ->
                     [participant EXCEPT !.listener =
                         IF r = "empty" THEN "failed" ELSE "status"]
                [] participant.listener = "status" ->
                     [participant EXCEPT !.chatJwtToken = (r = "ok"),
                                         !.listener =
                         IF r = "empty" THEN "failed" ELSE "accessChat"]
                [] participant.listener = "accessChat" ->
                     [participant EXCEPT !.listener = "connect",
                                         !.chatToken = TRUE]
                [] participant.listener = "connect" ->
                     [participant EXCEPT !.listener = "watch"]
                [] participant.listener = "watch" ->
                     [participant EXCEPT !.listener = "done"]
    /\ UNCHANGED <<clientVars, sink, stream, space, recorder>>

\* requestSpeaker() is called: it throws at a guard, or submits the request
\* and awaits the endpoint.
RequestSpeaker ==
    /\ ~participant.request
    /\ participant.nextUUID <= MaxRequests
    /\ participant' =
         IF /\ participant.chatJwtToken
            /\ participant.authToken
            /\ participant.chatToken
         THEN [participant EXCEPT !.request = TRUE,
                                  !.last = "requestSpeaker submitted"]
         ELSE [participant EXCEPT !.last = "requestSpeaker rejected"]
    /\ UNCHANGED <<clientVars, sink, stream, space, recorder>>

\* The submit endpoint answers: on success the session_uuid is stored.
RequestSpeakerResponse(ok) ==
    /\ participant.request
    /\ participant' =
         IF ok
         THEN [participant EXCEPT !.request = FALSE,
                                  !.sessionUUID = participant.nextUUID,
                                  !.nextUUID = @ + 1,
                                  !.outstanding = TRUE]
         ELSE [participant EXCEPT !.request = FALSE]
    /\ UNCHANGED <<clientVars, sink, stream, space, recorder>>

\* cancelSpeakerRequest() is called: it throws at a guard, or calls the
\* cancel endpoint and awaits it.
CancelSpeakerRequest ==
    /\ ~participant.cancel
    /\ participant' =
         IF /\ participant.sessionUUID # Undefined
            /\ participant.authToken
            /\ participant.chatToken
         THEN [participant EXCEPT !.cancel = TRUE,
                                  !.last = "cancelSpeakerRequest sent"]
         ELSE [participant EXCEPT !.last = "cancelSpeakerRequest rejected"]
    /\ UNCHANGED <<clientVars, sink, stream, space, recorder>>

\* Variant of CancelSpeakerResponse that clears the sessionUUID whether or
\* not the endpoint accepted the cancellation.
CancelSpeakerResponseAlwaysClears(ok) ==
    /\ participant.cancel
    /\ participant' = [participant EXCEPT !.cancel = FALSE,
                                          !.sessionUUID = Undefined,
                                          !.outstanding = IF ok THEN FALSE ELSE @]
    /\ UNCHANGED <<clientVars, sink, stream, space, recorder>>

\* The cancel endpoint answers: on success this.sessionUUID is cleared, on
\* failure the call rejects before that.
CancelSpeakerResponse(ok) ==
    /\ participant.cancel
    /\ participant' =
         IF ok
         THEN [participant EXCEPT !.cancel = FALSE, !.sessionUUID = Undefined,
                                  !.outstanding = FALSE]
         ELSE [participant EXCEPT !.cancel = FALSE]
    /\ UNCHANGED <<clientVars, sink, stream, space, recorder>>

\* becomeSpeaker() is called: it throws at its guard or goes on to the
\* negotiation.
BecomeSpeaker ==
    /\ participant' =
         IF participant.sessionUUID # Undefined
         THEN [participant EXCEPT !.last = "becomeSpeaker accepted"]
         ELSE [participant EXCEPT !.last = "becomeSpeaker rejected"]
    /\ UNCHANGED <<clientVars, sink, stream, space, recorder>>

\* --------------------------------------------------------------- Space
SpaceAwaiting ==
    \E i \in 1..Len(InitializeSteps) : space.init = InitializeSteps[i]

\* Variant of SpaceUse that calls init() whether or not the Space is
\* initialized.
SpaceUseAlwaysInits(r, withInit) ==
    /\ r \notin space.plugins
    /\ space' = [space EXCEPT
         !.plugins = @ \cup {r},
         !.hasInit = IF withInit THEN @ \cup {r} ELSE @,
         !.usedAt[r] = IF space.init = "done" THEN "after"
                       ELSE IF SpaceAwaiting THEN "during" ELSE "before",
         !.inits[r] = IF withInit THEN @ + 1 ELSE @,
         !.initAt[r] = IF withInit THEN "use" ELSE @]
    /\ UNCHANGED <<clientVars, sink, stream, participant, recorder>>

\* use(plugin): the registration is added; init() is called at once when
\* the Space is initialized and the plugin has an init().
SpaceUse(r, withInit) ==
    /\ r \notin space.plugins
    /\ space' = [space EXCEPT
         !.plugins = @ \cup {r},
         !.hasInit = IF withInit THEN @ \cup {r} ELSE @,
         !.usedAt[r] = IF space.init = "done" THEN "after"
                       ELSE IF SpaceAwaiting THEN "during" ELSE "before",
         !.inits[r] = IF space.isInitialized /\ withInit THEN @ + 1 ELSE @,
         !.initAt[r] = IF space.isInitialized /\ withInit THEN "use" ELSE @]
    /\ UNCHANGED <<clientVars, sink, stream, participant, recorder>>

\* initialize(config) is called: getPeriscopeCookie() is awaited.
SpaceInitialize(interactive) ==
    /\ space.init = "idle"
    /\ space' = [space EXCEPT !.init = "cookie", !.interactive = interactive]
    /\ UNCHANGED <<clientVars, sink, stream, participant, recorder>>

\* The end of initialize(): isInitialized is set and init() is called on
\* every registered plugin that has one, in the same task.
SpaceInitialized(sp) ==
    [sp EXCEPT
       !.init = "done",
       !.isInitialized = TRUE,
       !.inits = [r \in Registrations |->
                    IF r \in sp.plugins \cap sp.hasInit THEN @[r] + 1 ELSE @[r]],
       !.initAt = [r \in Registrations |->
                    IF r \in sp.plugins \cap sp.hasInit THEN "initialize"
                    ELSE @[r]]]

\* An await of initialize() settles: a rejection ends initialize(), a
\* result takes it to the next await, the last one to its end.
SpaceInitializeStep(ok) ==
    /\ SpaceAwaiting
    /\ space' =
         IF ~ok THEN [space EXCEPT !.init = "failed"]
         ELSE CASE space.init = "broadcast" ->
                     [space EXCEPT !.init = "authorize", !.broadcastInfo = TRUE]
                [] space.init = "authorize" ->
                     [space EXCEPT !.init = "turn", !.authToken = TRUE]
                [] space.init = "publish" ->
                     IF space.interactive
                     THEN [space EXCEPT !.init = "chat"]
                     ELSE SpaceInitialized(space)
                [] space.init = "chat" -> SpaceInitialized(space)
                [] OTHER ->
                     LET i == CHOOSE j \in 1..Len(InitializeSteps) :
                                 InitializeSteps[j] = space.init
                     IN  [space EXCEPT !.init = InitializeSteps[i + 1]]
    /\ UNCHANGED <<clientVars, sink, stream, participant, recorder>>

\* approveSpeaker(userId, sessionUUID) passes its guards (otherwise it
\* throws and changes nothing): the speaker is entered in the map, then the
\* approve endpoint is called and awaited.
ApproveSpeaker(u) ==
    /\ space.isInitialized
    /\ space.broadcastInfo
    /\ space.authToken
    /\ u \notin space.approving
    /\ space' = [space EXCEPT !.speakers = @ \cup {u},
                              !.approving = @ \cup {u}]
    /\ UNCHANGED <<clientVars, sink, stream, participant, recorder>>

\* The approve endpoint answers: on success approveSpeaker() goes on to
\* subscribeSpeaker(), on failure callApproveEndpoint throws and
\* approveSpeaker() rejects.
ApproveResponse(u, ok) ==
    /\ u \in space.approving
    /\ space' = [space EXCEPT !.approving = @ \ {u},
                              !.approved = IF ok THEN @ \cup {u} ELSE @]
    /\ UNCHANGED <<clientVars, sink, stream, participant, recorder>>

\* removeSpeaker(userId) of a speaker whose feed is known, the eject
\* endpoint having accepted: the entry is deleted.
RemoveSpeaker(u) ==
    /\ space.isInitialized
    /\ u \in space.speakers
    /\ u \in space.approved
    /\ u \notin space.approving
    /\ space' = [space EXCEPT !.speakers = @ \ {u}, !.approved = @ \ {u}]
    /\ UNCHANGED <<clientVars, sink, stream, participant, recorder>>

\* getSpeakers()
GetSpeakers == space.speakers

\* ----------------------------------------------------- HlsRecordPlugin
\* init(): the space is stored; with a media key in the broadcast info the
\* key is stored and the occupancyUpdate listener is registered.
RecorderInit(hasMediaKey) ==
    /\ ~recorder.inited
    /\ recorder' = [recorder EXCEPT !.inited = TRUE, !.listening = hasMediaKey]
    /\ UNCHANGED <<clientVars, sink, stream, participant, space>>

\* The Space emits occupancyUpdate: handleOccupancyUpdate returns when a
\* recording is on or nobody listens, else asks for the stream status.
OccupancyUpdate(h, occupancy) ==
    /\ recorder.listening
    /\ ~recorder.cleaned
    /\ recorder.handlers[h] = "idle"
    /\ recorder' =
         IF recorder.isRecording \/ occupancy <= 0
         THEN recorder
         ELSE [recorder EXCEPT !.handlers[h] = "status"]
    /\ UNCHANGED <<clientVars, sink, stream, participant, space>>

\* getAudioSpaceStreamStatus settles: with a location the HEAD request is
\* sent, without one ("none") or on a rejection the handler ends.
RecorderStatusResponse(h, r) ==
    /\ recorder.handlers[h] = "status"
    /\ recorder' = [recorder EXCEPT !.handlers[h] =
                        IF r = "ok" THEN "head" ELSE "idle"]
    /\ UNCHANGED <<clientVars, sink, stream, participant, space>>

\* startRecording(): nothing when a recording is on, else the flag is set
\* and ffmpeg is spawned.
StartRecording(rec) ==
    IF rec.isRecording THEN rec
    ELSE [rec EXCEPT !.isRecording = TRUE,
                     !.procs = Append(@, "running"),
                     !.recordingProcess = Len(rec.procs) + 1]

\* The HEAD request of waitForHlsReady settles: on 200 startRecording() is
\* called, otherwise the retry pause is awaited.
RecorderHeadResponse(h, ok) ==
    /\ recorder.handlers[h] = "head"
    /\ ok /\ ~recorder.isRecording => Len(recorder.procs) < MaxProcesses
    /\ recorder' =
         IF ok
         THEN StartRecording([recorder EXCEPT !.handlers[h] = "idle"])
         ELSE [recorder EXCEPT !.handlers[h] = "pause"]
    /\ UNCHANGED <<clientVars, sink, stream, participant, space>>

\* The pause of waitForHlsReady is over: it returns false, the handler ends.
RecorderPauseElapsed(h) ==
    /\ recorder.handlers[h] = "pause"
    /\ recorder' = [recorder EXCEPT !.handlers[h] = "idle"]
    /\ UNCHANGED <<clientVars, sink, stream, participant, space>>

\* An ffmpeg process has exited, by itself or after kill(): its close
\* handler clears isRecording.
RecorderProcessClose(p) ==
    /\ p \in 1..Len(recorder.procs)
    /\ recorder.procs[p] \in {"running", "killed"}
    /\ recorder' = [recorder EXCEPT !.procs[p] = "closed",
                                    !.isRecording = FALSE]
    /\ UNCHANGED <<clientVars, sink, stream, participant, space>>

\* cleanup(): a recording that is on is signalled to end and forgotten;
\* kill() returns before the process has exited.
RecorderCleanup ==
    /\ recorder.inited
    /\ ~recorder.cleaned
    /\ recorder' =
         IF recorder.isRecording /\ recorder.recordingProcess # 0
         THEN [recorder EXCEPT
                 !.cleaned = TRUE,
                 !.procs[recorder.recordingProcess] =
                     IF @ = "running" THEN "killed" ELSE @,
                 !.recordingProcess = 0,
                 !.isRecording = FALSE]
         ELSE [recorder EXCEPT !.cleaned = TRUE]
    /\ UNCHANGED <<clientVars, sink, stream, participant, space>>

\* The ffmpeg processes that were spawned and have neither exited nor been
\* told to.
Recording == {p \in 1..Len(recorder.procs) : recorder.procs[p] = "running"}

\* ------------------------------------------------------ specifications
\* The publisher handshake: initialize(), the poll loop it starts, the timer
\* of its waiter, and stop().
Next ==
    \/ Initialize
    \/ \E ok \in BOOLEAN : CreateSessionResponse(ok)
    \/ \E ok \in BOOLEAN : AttachResponse(ok)
    \/ \E ok \in BOOLEAN : CreateRoomResponse(ok)
    \/ \E ok \in BOOLEAN : JoinAck(ok)
    \/ \E ok \in BOOLEAN : CreateOfferDone(ok)
    \/ \E ok \in BOOLEAN : SetLocalDone(ok)
    \/ \E ok \in BOOLEAN : ConfigureAck(ok)
    \/ \E e \in Events : PollResponse(e)
    \/ PollFailed
    \/ PollTimer
    \/ \E w \in WaiterIds : TimerFires(w)
    \/ Stop

Spec == Init /\ [][Next]_vars

\* The client once initialize() has completed: the five requests were sent,
\* the 'joined' event carried id 42, the answer to the configure offer has
\* been applied, the join timer has fired, the poll loop has a request in
\* flight.
ClientEstablished ==
    /\ sessionId = 1
    /\ handleId = 1
    /\ publisherId = 42
    /\ pc = [NewPc EXCEPT !.localOffer = TRUE, !.remoteAnswer = TRUE,
                          !.tracks = 1]
    /\ localAudioSource = TRUE
    /\ pollActive = TRUE
    /\ eventWaiters = <<>>
    /\ waiter = [w \in WaiterIds |->
                   IF w = JoinW
                   THEN [NewWaiter(Undefined, JoinTimeoutMs, "Host Joined Event")
                           EXCEPT !.status = "resolved", !.settles = 1,
                                  !.evt = Evt("event", 1, VideoRoom, "joined", 42,
                                              <<>>, "none", FALSE)]
                   ELSE NoWaiter]
    /\ timers = <<>>
    /\ poll = "fetching"
    /\ init = [pc |-> "done", err |-> NoErr,
               sent |-> <<"create", "attach", "createRoom", "join", "configure">>,
               inflight |-> {}]
    /\ sub = [c \in Calls |-> NoSub]
    /\ subscribers = [u \in Users |-> NoSubscriber]
    /\ nextHandle = 2
    /\ stopped = FALSE
    /\ emitted = <<>>
    /\ resolution = <<>>

\* The established client, with no sink fed and no stream started.
Established ==
    /\ ClientEstablished
    /\ sink = NewSink
    /\ stream = NoStream
    /\ AppIdle

\* The subscriber negotiations on an established client: subscribeSpeaker()
\* calls interleaved with the poll loop and the waiters' timers.
NextSub ==
    \/ \E c \in Calls, u \in Users : SubscribeSpeaker(c, u)
    \/ \E c \in Calls, ok \in BOOLEAN : SubAttachResponse(c, ok)
    \/ \E c \in Calls, ok \in BOOLEAN : SubJoinAck(c, ok)
    \/ \E c \in Calls, ok \in BOOLEAN : SubEngineDone(c, ok)
    \/ \E c \in Calls, ok \in BOOLEAN : SubStartAck(c, ok)
    \/ \E e \in SubEvents : PollResponse(e)
    \/ PollFailed
    \/ PollTimer
    \/ \E w \in WaiterIds : TimerFires(w)

SpecSub == Established /\ [][NextSub]_vars

\* The events of a room in which alice and bob publish: their announcement
\* and the offers of the subscriber handles.
AudioEvents ==
    { e \in SubEvents :
        \/ e.jsep = "offer"
        \/ e.publishers = <<Pub(99, "alice", "u1"), Pub(98, "bob", "alice")>> }

\* Inbound audio: the subscriber negotiations, and the frames that arrive on
\* the subscriber connections.
NextAudio ==
    \/ \E c \in Calls, u \in Users : SubscribeSpeaker(c, u)
    \/ \E c \in Calls, ok \in BOOLEAN : SubAttachResponse(c, ok)
    \/ \E c \in Calls, ok \in BOOLEAN : SubJoinAck(c, ok)
    \/ \E c \in Calls, ok \in BOOLEAN : SubEngineDone(c, ok)
    \/ \E c \in Calls, ok \in BOOLEAN : SubStartAck(c, ok)
    \/ \E e \in AudioEvents : PollResponse(e)
    \/ PollTimer
    \/ \E w \in WaiterIds : TimerFires(w)
    \/ \E c \in Calls : SpeakerFrame(c)

SpecAudio == Established /\ [][NextAudio]_vars

\* The publisher handshake against a gateway whose success responses may
\* carry no id.
NextGuarded ==
    \/ Initialize
    \/ \E ok \in BOOLEAN : CreateSessionResponse(ok)
    \/ CreateSessionResponseNoId
    \/ \E ok \in BOOLEAN : AttachResponse(ok)
    \/ AttachResponseNoId
    \/ \E ok \in BOOLEAN : CreateRoomResponse(ok)
    \/ \E ok \in BOOLEAN : JoinAck(ok)
    \/ \E ok \in BOOLEAN : CreateOfferDone(ok)
    \/ \E ok \in BOOLEAN : SetLocalDone(ok)
    \/ \E ok \in BOOLEAN : ConfigureAck(ok)
    \/ \E e \in Events : PollResponse(e)
    \/ PollFailed
    \/ PollTimer
    \/ \E w \in WaiterIds : TimerFires(w)
    \/ Stop

SpecGuarded == Init /\ [][NextGuarded]_vars

\* The guest handshake: initializeGuestSpeaker(), the poll loop it starts,
\* the timer of its waiter, and stop().
NextGuest ==
    \/ InitializeGuestSpeaker
    \/ \E ok \in BOOLEAN : GuestCreateSessionResponse(ok)
    \/ \E ok \in BOOLEAN : GuestAttachResponse(ok)
    \/ \E ok \in BOOLEAN : JoinAck(ok)
    \/ \E ok \in BOOLEAN : CreateOfferDone(ok)
    \/ \E ok \in BOOLEAN : SetLocalDone(ok)
    \/ \E ok \in BOOLEAN : ConfigureAck(ok)
    \/ \E e \in Events : PollResponse(e)
    \/ PollFailed
    \/ PollTimer
    \/ \E w \in WaiterIds : TimerFires(w)
    \/ Stop

SpecGuest == Init /\ [][NextGuest]_vars

\* One sink, the frames of its track, and stop() at any point.
NextSink ==
    \/ \E f \in Frames : SinkOnData(f)
    \/ SinkStop

SpecSink == Init /\ [][NextSink]_vars

\* The plugin streams one buffer to an established client, which may be
\* stopped meanwhile.
NextStream ==
    \/ \E n \in 0..MaxSamples : StreamToJanus(n)
    \/ StreamPauseElapsed
    \/ Stop

SpecStream == Established /\ [][NextStream]_vars

\* Events that carry an answer, from the publisher handle or from a
\* subscriber handle.
AnswerEvents ==
    { Evt("event", h, VideoRoom, "event", Undefined, <<>>, "answer", FALSE) :
        h \in HandleIds }

\* The client whose initialize() has completed while the answer to its
\* configure offer has not arrived yet.
AwaitingAnswer ==
    /\ sessionId = 1
    /\ handleId = 1
    /\ publisherId = 42
    /\ pc = [NewPc EXCEPT !.localOffer = TRUE, !.tracks = 1]
    /\ localAudioSource = TRUE
    /\ pollActive = TRUE
    /\ eventWaiters = <<>>
    /\ waiter = [w \in WaiterIds |->
                   IF w = JoinW
                   THEN [NewWaiter(Undefined, JoinTimeoutMs, "Host Joined Event")
                           EXCEPT !.status = "resolved", !.settles = 1,
                                  !.evt = Evt("event", 1, VideoRoom, "joined", 42,
                                              <<>>, "none", FALSE)]
                   ELSE NoWaiter]
    /\ timers = <<>>
    /\ poll = "fetching"
    /\ init = [pc |-> "done", err |-> NoErr,
               sent |-> <<"create", "attach", "createRoom", "join", "configure">>,
               inflight |-> {}]
    /\ sub = [c \in Calls |-> NoSub]
    /\ subscribers = [u \in Users |-> NoSubscriber]
    /\ nextHandle = 2
    /\ stopped = FALSE
    /\ emitted = <<>>
    /\ resolution = <<>>
    /\ sink = NewSink
    /\ stream = NoStream
    /\ AppIdle

\* Answers on a client with one subscribeSpeaker() call, and stop() at any
\* point.
NextAnswer ==
    \/ \E u \in Users : SubscribeSpeaker(1, u)
    \/ \E ok \in BOOLEAN : SubAttachResponse(1, ok)
    \/ \E ok \in BOOLEAN : SubJoinAck(1, ok)
    \/ \E ok \in BOOLEAN : SubEngineDone(1, ok)
    \/ \E ok \in BOOLEAN : SubStartAck(1, ok)
    \/ \E e \in SubEvents \cup AnswerEvents : PollResponse(e)
    \/ PollTimer
    \/ \E w \in WaiterIds : TimerFires(w)
    \/ Stop

SpecAnswer == AwaitingAnswer /\ [][NextAnswer]_vars

\* The buffers pushed while the client initializes: one frame or two.
LocalAudioLengths == {FRAME_SIZE, 2 * FRAME_SIZE}

\* Local audio at any point of the life of the client: the handshake, stop(),
\* and the application calling enableLocalAudio() and, through
\* streamToJanus(), pushLocalAudio().
NextLocalAudio ==
    \/ Initialize
    \/ \E ok \in BOOLEAN : CreateSessionResponse(ok)
    \/ \E ok \in BOOLEAN : AttachResponse(ok)
    \/ \E ok \in BOOLEAN : CreateRoomResponse(ok)
    \/ \E ok \in BOOLEAN : JoinAck(ok)
    \/ \E ok \in BOOLEAN : CreateOfferDone(ok)
    \/ \E ok \in BOOLEAN : SetLocalDone(ok)
    \/ \E ok \in BOOLEAN : ConfigureAck(ok)
    \/ \E e \in Events : PollResponse(e)
    \/ PollTimer
    \/ \E w \in WaiterIds : TimerFires(w)
    \/ Stop
    \/ EnableLocalAudio
    \/ \E n \in LocalAudioLengths : StreamToJanus(n)
    \/ StreamPauseElapsed

SpecLocalAudio == Init /\ [][NextLocalAudio]_vars

\* The calls an application makes on a SpaceParticipant, in any order, and
\* the answers of the endpoints.
NextParticipant ==
    \/ JoinAsListener
    \/ \E r \in {"ok", "fail", "empty"} : ListenerStep(r)
    \/ RequestSpeaker
    \/ \E ok \in BOOLEAN : RequestSpeakerResponse(ok)
    \/ CancelSpeakerRequest
    \/ \E ok \in BOOLEAN : CancelSpeakerResponse(ok)
    \/ BecomeSpeaker

SpecParticipant == Init /\ [][NextParticipant]_vars

\* The calls a host application makes on a Space that it initializes once,
\* and the answers of the endpoints.
NextSpace ==
    \/ \E r \in Registrations, withInit \in BOOLEAN : SpaceUse(r, withInit)
    \/ \E interactive \in BOOLEAN : SpaceInitialize(interactive)
    \/ \E ok \in BOOLEAN : SpaceInitializeStep(ok)
    \/ \E u \in Users : ApproveSpeaker(u)
    \/ \E u \in Users, ok \in BOOLEAN : ApproveResponse(u, ok)
    \/ \E u \in Users : RemoveSpeaker(u)

SpecSpace == Init /\ [][NextSpace]_vars

\* The recorder plugin from init() to cleanup(): occupancy updates arrive
\* until cleanup(), requests and processes end at any time.
NextRecorder ==
    \/ \E hasMediaKey \in BOOLEAN : RecorderInit(hasMediaKey)
    \/ \E h \in 1..MaxHandlers, occupancy \in {0, 1} :
          OccupancyUpdate(h, occupancy)
    \/ \E h \in 1..MaxHandlers, r \in {"ok", "none", "fail"} :
          RecorderStatusResponse(h, r)
    \/ \E h \in 1..MaxHandlers, ok \in BOOLEAN : RecorderHeadResponse(h, ok)
    \/ \E h \in 1..MaxHandlers : RecorderPauseElapsed(h)
    \/ \E p \in 1..MaxProcesses : RecorderProcessClose(p)
    \/ RecorderCleanup

SpecRecorder == Init /\ [][NextRecorder]_vars

\* stop() on an established client: one subscribeSpeaker() call, the poll
\* loop, the waiters' timers, and stop() at any point.
NextStop ==
    \/ \E u \in Users : SubscribeSpeaker(1, u)
    \/ \E ok \in BOOLEAN : SubAttachResponse(1, ok)
    \/ \E ok \in BOOLEAN : SubJoinAck(1, ok)
    \/ \E ok \in BOOLEAN : SubEngineDone(1, ok)
    \/ \E ok \in BOOLEAN : SubStartAck(1, ok)
    \/ \E e \in SubEvents : PollResponse(e)
    \/ PollFailed
    \/ PollTimer
    \/ \E w \in WaiterIds : TimerFires(w)
    \/ Stop

SpecStop == Established /\ [][NextStop]_vars

\* The event loop runs the callback of every timer that was armed.
FairSpecStop == SpecStop /\ WF_vars(\E w \in WaiterIds : TimerFires(w))

\* ============================================================ properties
Range(q) == { q[k] : k \in 1..Len(q) }
Pending(w) == waiter[w].status = "pending"
AlicePubs == <<Pub(99, "alice", "u1")>>

\* The arguments each caller passes to waitForJanusEvent.
ExpectedTimeout(w) ==
    CASE w[2] = "join" -> TimeoutError("Host Joined Event", 12000)
      [] w[2] = "disc" -> TimeoutError("discover feed_id from \"publishers\"", 8000)
      [] w[2] = "att" -> TimeoutError("subscriber attached + offer", 8000)

\* C1: one dispatched event calls resolve() on at most one waiter, and over
\* its whole life a waiter has resolve() or reject() called on it at most
\* once: a resolved waiter is not rejected by its timer, a timed-out waiter
\* is not resolved by a later event.
C1_SettledAtMostOnce ==
    /\ Len(resolution) <= 1
    /\ \A w \in WaiterIds :
         /\ waiter[w].settles <= 1
         /\ waiter[w].settles = 1 <=> waiter[w].status \in {"resolved", "rejected"}

\* C1 witness: the timer of a resolved waiter has fired since, and an event
\* has just resolved one waiter.
C1_Witness ==
    /\ Len(resolution) = 1
    /\ \E c \in Calls :
         /\ waiter[DiscW(c)].status = "resolved"
         /\ DiscW(c) \notin Range(timers)
         /\ resolution[1].w # DiscW(c)

\* C2: when an event resolves a waiter, every other pending waiter whose
\* predicate accepts the event was registered later, stays pending and stays
\* in the list; a pending waiter is rejected only by its own timer.
C2_EarliestMatchingWaiter ==
    [][\A w \in WaiterIds :
         /\ (Pending(w) /\ waiter'[w].status = "resolved") =>
               /\ Len(resolution') = 1
               /\ resolution'[1].w = w
               /\ \A x \in WaiterIds \ {w} :
                    (Pending(x) /\ Predicate(x, resolution'[1].evt)) =>
                        /\ IndexOf(timers, w) < IndexOf(timers, x)
                        /\ waiter'[x].status = "pending"
                        /\ x \in Range(eventWaiters')
         /\ (Pending(w) /\ waiter'[w].status = "rejected") =>
               (w \in Range(timers) /\ w \notin Range(timers'))]_vars

\* C2 witness: a publishers event resolved the discovery waiter of one call
\* while the discovery waiter of the other call, which it also satisfies,
\* stays pending.
C2_Witness ==
    \E c, d \in Calls :
        /\ c # d
        /\ Len(resolution) = 1
        /\ resolution[1].w = DiscW(c)
        /\ Pending(DiscW(d))
        /\ PublishersPredicate(resolution[1].evt)
        /\ DiscW(d) \in Range(eventWaiters)

\* C3: when the timer of a pending waiter fires, the waiter leaves the list
\* and is rejected with the timeout error built from its description and
\* timeoutMs; from then on no step changes it or puts it back in the list.
C3_TimeoutRejects ==
    [][\A w \in WaiterIds :
         /\ (Pending(w) /\ w \in Range(timers) /\ w \notin Range(timers')) =>
               /\ waiter'[w].status = "rejected"
               /\ waiter'[w].err = ExpectedTimeout(w)
               /\ w \notin Range(eventWaiters')
         /\ waiter[w].status = "rejected" =>
               /\ waiter'[w] = waiter[w]
               /\ w \notin Range(eventWaiters')]_vars

\* C3 witness: a discovery waiter timed out, its call failed with the timeout
\* error, and an event its predicate accepts was dispatched afterwards (it
\* resolved the other call's waiter).
C3_Witness ==
    \E c, d \in Calls :
        /\ c # d
        /\ waiter[DiscW(c)].status = "rejected"
        /\ sub[c].pc = "failed"
        /\ sub[c].err = ExpectedTimeout(DiscW(c))
        /\ Len(resolution) = 1
        /\ resolution[1].w = DiscW(d)
        /\ Predicate(DiscW(c), resolution[1].evt)

\* C4: the 'attached + offer' wait of a call is resolved only by an event
\* whose sender is the subscriber handle that call attached, and that handle
\* is not the handle of any other call.
C4_OwnHandleOnly ==
    \A k \in 1..Len(resolution) : \A c \in Calls :
        resolution[k].w = AttW(c) =>
            /\ sub[c].handle # Undefined
            /\ resolution[k].evt.sender = sub[c].handle
            /\ \A d \in Calls \ {c} : sub[d].handle # resolution[k].evt.sender

\* C4 witness: both calls wait for their attached event, and one of them has
\* just been resolved.
C4_Witness ==
    \E c, d \in Calls :
        /\ c # d
        /\ Len(resolution) = 1
        /\ resolution[1].w = AttW(c)
        /\ sub[c].pc = "setRemote"
        /\ sub[d].pc = "attached"
        /\ Pending(AttW(d))

\* C5 (as claimed): when the event [{id:99, display:"alice"}] is dispatched
\* with an alice call and a bob call both in feed discovery, whichever
\* registered first, the alice call gets feed 99 and the bob call stays in
\* discovery, its timer still pending (it can fail only when that fires).
C5_AliceResolvesBobTimesOut ==
    \A c, d \in Calls :
        ( /\ c # d
          /\ sub[c].userId = "alice"
          /\ sub[d].userId = "bob"
          /\ Len(resolution) = 1
          /\ resolution[1].w \in {DiscW(c), DiscW(d)}
          /\ resolution[1].evt.publishers = AlicePubs
          /\ \/ sub[c].pc = "discover"
             \/ sub[d].pc = "discover" )
        => ( /\ sub[c].pc = "join"
             /\ sub[c].feedId = 99
             /\ sub[d].pc = "discover"
             /\ DiscW(d) \in Range(timers) )

\* C6 (as claimed): a call that fails in feed discovery fails with the
\* no-publisher error naming its userId, and only once the discovery timer
\* has fired.
C6_SpeakerNotFoundAtBound ==
    \A c \in Calls :
        (sub[c].pc = "failed" /\ sub[c].failedAt = "discover") =>
            /\ sub[c].err = NoPublisherError(sub[c].userId)
            /\ DiscW(c) \notin Range(timers)

\* The entries of list whose display or periscope_user_id is userId.
Matching(list, userId) ==
    { i \in 1..Len(list) :
        list[i].display = userId \/ list[i].periscope_user_id = userId }

\* C7: after the discovery wait of a call resolved, the call has failed if no
\* entry of the event's list matches its userId; otherwise its feed id is the
\* id of the matching entry of least index, 'subscribedSpeaker' was emitted
\* with it and the subscriber join names it.
C7_FirstMatchingPublisher ==
    \A k \in 1..Len(resolution) : \A c \in Calls :
        resolution[k].w = DiscW(c) =>
            LET list == resolution[k].evt.publishers
                m == Matching(list, sub[c].userId)
            IN  IF m = {}
                THEN /\ sub[c].pc = "failed"
                     /\ sub[c].err = NoPublisherError(sub[c].userId)
                ELSE LET i == CHOOSE i \in m : \A j \in m : i <= j IN
                     /\ sub[c].pc = "join"
                     /\ sub[c].feedId = list[i].id
                     /\ [name |-> "subscribedSpeaker", userId |-> sub[c].userId,
                         feedId |-> list[i].id] \in Range(emitted)
                     /\ sub[c].sent[Len(sub[c].sent)] =
                            [request |-> "join", handle |-> sub[c].handle,
                             feed |-> list[i].id]

\* C7 witness: the list's first entry does not match, its second does, and
\* the second was selected.
C7_Witness ==
    \E c \in Calls :
        /\ Len(resolution) = 1
        /\ resolution[1].w = DiscW(c)
        /\ Len(resolution[1].evt.publishers) = 2
        /\ Matching(resolution[1].evt.publishers, sub[c].userId) = {2}
        /\ sub[c].pc = "join"
        /\ sub[c].feedId = resolution[1].evt.publishers[2].id

\* C8: initialize() sends configure only when the joined waiter is resolved,
\* and that waiter becomes resolved only in a poll dispatch of a videoroom
\* 'joined' event that happens after the join request was issued.
C8_ConfigureAfterJoined ==
    [][/\ ("configure" \notin Range(init.sent) /\ "configure" \in Range(init'.sent))
          => waiter[JoinW].status = "resolved"
       /\ (waiter[JoinW].status # "resolved" /\ waiter'[JoinW].status = "resolved")
          => /\ "join" \in Range(init.sent)
             /\ poll = "fetching"
             /\ poll' = "delay"
             /\ Len(resolution') = 1
             /\ resolution'[1].w = JoinW
             /\ resolution'[1].evt.janus = "event"
             /\ resolution'[1].evt.plugin = VideoRoom
             /\ resolution'[1].evt.videoroom = "joined"]_vars

\* C8 witness: configure has been sent.
C8_Witness ==
    /\ init.pc = "configure"
    /\ "configure" \in init.inflight
    /\ waiter[JoinW].status = "resolved"

\* C9 (as claimed): when initialize() has completed and the publisher peer
\* connection exists, the SDP answer has been applied to it.
C9_PublishedAfterAnswer ==
    (init.pc = "done" /\ pc.exists) => pc.remoteAnswer

HandshakeOrder == <<"create", "attach", "createRoom", "join", "configure">>

\* C10: the requests initialize() has issued are a prefix of create, attach,
\* createRoom, join, configure, and at most one of them, the last issued, is
\* awaiting its HTTP response.
C10_SequentialHandshake ==
    /\ Len(init.sent) <= Len(HandshakeOrder)
    /\ \A k \in 1..Len(init.sent) : init.sent[k] = HandshakeOrder[k]
    /\ Cardinality(init.inflight) <= 1
    /\ \A r \in init.inflight : r = init.sent[Len(init.sent)]

\* C10 witness: all five requests were issued and initialize() completed.
C10_Witness ==
    /\ init.pc = "done"
    /\ init.sent = HandshakeOrder
    /\ init.inflight = {}

\* C11 (as claimed): at the step in which initialize() completes, publisherId
\* is the id carried by the 'joined' event that resolved the wait of joinRoom.
C11_PublisherIdIsJoinedId ==
    [][(init.pc # "done" /\ init'.pc = "done") =>
          /\ waiter'[JoinW].status = "resolved"
          /\ publisherId' = waiter'[JoinW].evt.id]_vars

\* A handshake request of initialize() gets a response that is not ok.
HandshakeRequestRefused ==
    \/ CreateSessionResponse(FALSE)
    \/ AttachResponse(FALSE)
    \/ CreateRoomResponse(FALSE)
    \/ JoinAck(FALSE)
    \/ ConfigureAck(FALSE)

\* C12: the step in which a handshake request of initialize() gets a non-2xx
\* response makes initialize() reject with the transport failure and issues
\* no request; once initialize() has rejected, it issues no request again
\* (no later handshake request, no retry).
C12_TransportFailureFatal ==
    [][/\ HandshakeRequestRefused =>
             /\ init'.pc = "failed"
             /\ init'.err = TransportError
             /\ init'.sent = init.sent
             /\ init'.inflight = {}
       /\ init.pc = "failed" => init' = init]_vars

\* C12 witness: the join request was refused, initialize() rejected with the
\* transport failure, and the timer of the joined wait has fired since with
\* no further request issued.
C12_Witness ==
    /\ init.pc = "failed"
    /\ init.err = TransportError
    /\ init.sent = <<"create", "attach", "createRoom", "join">>
    /\ waiter[JoinW].status = "rejected"

\* C13: when the timer of the joined wait fires with the wait still pending
\* (no 'joined' event was dispatched within 12000 ms of the join request),
\* the wait is rejected with the timeout error; initialize() rejects with
\* that error, at once when it is awaiting the event, and on the join
\* request's ok response when that is still outstanding (a refused join
\* request rejects it with the transport failure); configure is never sent.
C13_JoinedTimeoutFatal ==
    [][/\ (TimerFires(JoinW) /\ Pending(JoinW)) =>
             /\ waiter'[JoinW].status = "rejected"
             /\ waiter'[JoinW].err = TimeoutError("Host Joined Event", 12000)
             /\ init.pc = "joinEvt" =>
                   /\ init'.pc = "failed"
                   /\ init'.err = TimeoutError("Host Joined Event", 12000)
       /\ (JoinAck(TRUE) /\ waiter[JoinW].status = "rejected") =>
             /\ init'.pc = "failed"
             /\ init'.err = TimeoutError("Host Joined Event", 12000)
       /\ waiter'[JoinW].status = "rejected" =>
             /\ init'.pc \in {"joinAck", "failed"}
             /\ "configure" \notin Range(init'.sent)]_vars

\* C13 witness: the join request was acknowledged, no 'joined' event came,
\* the timer fired and initialize() rejected with the timeout error, and an
\* event dispatched later has not revived the handshake.
C13_Witness ==
    /\ init.pc = "failed"
    /\ init.err = TimeoutError("Host Joined Event", 12000)
    /\ init.sent = <<"create", "attach", "createRoom", "join">>
    /\ waiter[JoinW].status = "rejected"
    /\ publisherId = 42

\* The 'error' notifications among the notifications q.
ErrorsIn(q) == { k \in 1..Len(q) : q[k].name = "error" }

\* C14 (as claimed): the dispatch of a poll payload that carries an error
\* field emits exactly one 'error' notification, whatever its other fields.
C14_ErrorAlwaysNotified ==
    [][\A e \in Events :
          (PollResponse(e) /\ e.error) => Cardinality(ErrorsIn(emitted')) = 1]_vars

\* C15: doPoll has one position: a long-poll request is issued only by
\* startPolling or when the 500 ms timer set after the previous response
\* fires; a request in flight ends only with its response, after which the
\* loop waits for the timer; and a waiter is resolved only in the task of a
\* poll response, one event at a time.
C15_OnePollInFlight ==
    [][/\ (poll # "fetching" /\ poll' = "fetching") =>
             \/ poll = "delay" /\ PollTimer
             \/ poll = "idle" /\ AttachResponse(TRUE)
       /\ poll = "fetching" => poll' \in {"fetching", "delay"}
       /\ (poll = "fetching" /\ poll' = "delay") =>
             (PollFailed \/ \E e \in Events : PollResponse(e))
       /\ resolution' # <<>> =>
             /\ poll = "fetching"
             /\ poll' = "delay"
             /\ Len(resolution') = 1]_vars

\* C15 witness: an event was dispatched and resolved the joined wait, the
\* delay has elapsed and the next long-poll request is in flight.
C15_Witness ==
    /\ poll = "fetching"
    /\ waiter[JoinW].status = "resolved"
    /\ init.pc = "createOffer"

\* C16 (as claimed): once stop() has been called on a client whose
\* initialize() was called, no step issues a long-poll request.
C16_NoPollAfterStop ==
    [][(stopped /\ poll # "fetching") => poll' # "fetching"]_vars

\* C17 (as claimed): a waiter that is pending once stop() has been called is
\* not resolved any more: it stays pending until its timer rejects it.
C17_PendingUntilDeadline ==
    [][\A w \in WaiterIds :
          (stopped /\ Pending(w)) => waiter'[w].status # "resolved"]_vars

\* C18 (as claimed): once stop() has been called, this.subscribers has no
\* entry and no subscriber peer connection is open.
C18_NoSubscriptionAfterStop ==
    stopped => \A u \in Users : subscribers[u] = NoSubscriber

\* C19: a poll iteration whose response is not ok or does not decode leaves
\* the waiter list, every waiter and every caller as they are and emits
\* nothing; it arms the 500 ms timer, and when that fires with polling
\* active the next long-poll request is issued.
C19_BadPollDropped ==
    [][/\ PollFailed =>
             /\ UNCHANGED <<eventWaiters, waiter, timers, publisherId, pc, init,
                            sub, subscribers>>
             /\ emitted' = <<>>
             /\ resolution' = <<>>
             /\ poll' = "delay"
       /\ (PollTimer /\ pollActive /\ sessionId # Undefined) =>
             poll' = "fetching"]_vars

\* C19 witness: with the joined wait pending, a poll iteration has ended
\* without resolving or emitting anything and its timer is armed.
C19_Witness ==
    /\ poll = "delay"
    /\ pollActive
    /\ init.pc = "joinEvt"
    /\ Pending(JoinW)
    /\ emitted = <<>>
    /\ resolution = <<>>

\* The requests subscribeSpeaker issues, in the order of its code.
SubscribeOrder == <<"attach", "join", "start">>

\* C20: the requests a subscribeSpeaker call has issued are a prefix of
\* attach, join, start.  The join is issued on the handle attach returned,
\* for the feed the resolved discovery wait gave; the subscriber connection
\* exists only after the join was issued and the attached wait resolved;
\* start is issued only once the remote offer and the local answer are set;
\* and a userId is in this.subscribers only when a call for that userId has
\* had its start request acknowledged, with the handle of such a call.
C20_SubscribeOrder ==
    /\ \A c \in Calls :
          /\ Len(sub[c].sent) <= Len(SubscribeOrder)
          /\ \A k \in 1..Len(sub[c].sent) :
                sub[c].sent[k].request = SubscribeOrder[k]
          /\ Len(sub[c].sent) >= 2 =>
                /\ sub[c].handle # Undefined
                /\ sub[c].feedId # Undefined
                /\ waiter[DiscW(c)].status = "resolved"
                /\ sub[c].sent[2].handle = sub[c].handle
                /\ sub[c].sent[2].feed = sub[c].feedId
          /\ sub[c].subPc # "none" =>
                /\ Len(sub[c].sent) >= 2
                /\ waiter[AttW(c)].status = "resolved"
          /\ sub[c].pc = "attached" => sub[c].subPc = "none"
          /\ Len(sub[c].sent) = 3 =>
                /\ sub[c].subPc = "stable"
                /\ sub[c].sent[3].handle = sub[c].handle
                /\ sub[c].pc \in {"start", "done"}
          /\ sub[c].pc = "done" => Len(sub[c].sent) = 3
    /\ \A u \in Users :
          subscribers[u] # NoSubscriber =>
              \E c \in Calls :
                  /\ sub[c].pc = "done"
                  /\ sub[c].userId = u
                  /\ subscribers[u].handleId = sub[c].handle

\* C20 witness: a call has gone through all its steps and its mapping is
\* recorded, while the other call has issued start and awaits the
\* acknowledgement with nothing recorded for its user.
C20_Witness ==
    \E c, d \in Calls :
        /\ c # d
        /\ sub[c].pc = "done"
        /\ subscribers[sub[c].userId] =
               [handleId |-> sub[c].handle, pcOpen |-> TRUE]
        /\ sub[d].pc = "start"
        /\ sub[d].userId # sub[c].userId
        /\ subscribers[sub[d].userId] = NoSubscriber
\* C21: every 'audioDataFromSpeaker' notification carries the userId that was
\* passed to the subscribeSpeaker call whose subscriber connection the frame
\* arrived on, whatever other subscriptions are active or negotiating.
C21_FrameTaggedWithOwnUser ==
    [][\A c \in Calls :
          SpeakerFrame(c) => emitted' = AudioDataFromSpeaker(sub[c].userId)]_vars

\* A frame of alice's connection is notified while a later call, for bob, has
\* a subscriber connection of its own.
C21_Witness ==
    /\ emitted = AudioDataFromSpeaker("alice")
    /\ sub[1].userId = "alice" /\ sub[1].subPc # "none"
    /\ sub[2].userId = "bob" /\ sub[2].subPc # "none"

\* C22: the 'audioData' events of a sink are exactly the frames delivered to
\* it before stop(), each once and in order; a frame delivered after stop()
\* is not emitted.
C22_SinkEmitsUntilStopped ==
    sink.emitted = SubSeq(sink.delivered, 1,
                          IF sink.active THEN Len(sink.delivered) ELSE sink.atStop)

\* A stopped sink that emitted a frame before stop() and was handed another
\* one after it.
C22_Witness ==
    /\ ~sink.active
    /\ Len(sink.emitted) >= 1
    /\ Len(sink.delivered) > Len(sink.emitted)

GuestHandshakeOrder == <<"create", "attach", "join", "configure">>

\* C24: the guest initialization never issues a room create request; its
\* requests are create session, attach plugin, join, configure, in that
\* order, each issued once the one before it was acknowledged, and configure
\* only once a 'joined' event has resolved the join waiter.
C24_GuestHandshake ==
    /\ "createRoom" \notin Range(init.sent)
    /\ Len(init.sent) <= Len(GuestHandshakeOrder)
    /\ init.sent = SubSeq(GuestHandshakeOrder, 1, Len(init.sent))
    /\ \A r \in init.inflight : init.sent # <<>> /\ r = init.sent[Len(init.sent)]
    /\ "configure" \in Range(init.sent) =>
          /\ waiter[JoinW].status = "resolved"
          /\ JoinedPredicate(waiter[JoinW].evt)

\* A guest initialization that completed.
C24_Witness ==
    /\ init.pc = "done"
    /\ init.sent = GuestHandshakeOrder

\* The subscriber joins that call c has sent.
JoinsOf(c) == { k \in 1..Len(sub[c].sent) : sub[c].sent[k].request = "join" }

\* C25: the handle a subscribeSpeaker call attached is fresh, differs from
\* the publisher handle and from the handle of every other call; the call
\* sends at most one subscriber join, on that handle and naming the one feed
\* id it discovered, and has sent exactly one once it is past discovery.
C25_OneFeedPerHandle ==
    \A c \in Calls :
       /\ sub[c].handle # Undefined =>
             /\ sub[c].handle # handleId
             /\ sub[c].handle < nextHandle
             /\ \A d \in Calls \ {c} : sub[d].handle # sub[c].handle
       /\ \A k \in JoinsOf(c) :
             /\ sub[c].sent[k].handle = sub[c].handle
             /\ sub[c].sent[k].handle # Undefined
             /\ sub[c].sent[k].feed # Undefined
             /\ sub[c].sent[k].feed = sub[c].feedId
       /\ Cardinality(JoinsOf(c)) <= 1
       /\ sub[c].pc \in {"join", "attached", "setRemote", "createAnswer",
                         "setLocal", "start", "done"} =>
             Cardinality(JoinsOf(c)) = 1

\* Two calls completed, each on its own handle and for its own feed.
C25_Witness ==
    /\ sub[1].pc = "done" /\ sub[2].pc = "done"
    /\ sub[1].feedId # sub[2].feedId
    /\ sub[1].handle # sub[2].handle

\* C26: whenever a room create, join or configure request has been issued,
\* the session id and the publisher handle id are set.
C26_HandleBeforeRoomRequests ==
    \A r \in {"createRoom", "join", "configure"} :
       r \in Range(init.sent) => sessionId # Undefined /\ handleId # Undefined

\* The attach response carried no id: the handle is unset, the poll loop
\* runs, and initialize() failed at the guard without a room request.
C26_Witness ==
    /\ init.pc = "failed" /\ init.err = NoHandleError
    /\ sessionId # Undefined /\ handleId = Undefined
    /\ init.sent = <<"create", "attach">>

\* C27 (as claimed): once stop() has been called, no step resolves a waiter,
\* emits an 'error' notification or changes the publisher id: no poll
\* response is dispatched any more.
C27_NoDispatchAfterStop ==
    [][stopped =>
          /\ resolution' = <<>>
          /\ ErrorsIn(emitted') = {}
          /\ publisherId' = publisherId]_vars

\* C28 (as claimed): an 'attached' event with an offer for the handle of a
\* subscribeSpeaker call, dispatched while the call awaits the HTTP response
\* of its subscriber join, reaches the call: its attached wait is resolved
\* with that event.
C28_AttachedDuringJoinAckNotLost ==
    [][\A c \in Calls : \A e \in SubEvents :
          (PollResponse(e) /\ sub[c].pc = "join"
             /\ AttachedPredicate(sub[c].handle, e)) =>
          waiter'[AttW(c)].status = "resolved"]_vars

\* C29: from the moment the join request has been issued the 'joined' waiter
\* is registered, and a 'joined' event dispatched while no event or timer has
\* settled it yet, before or after the request's HTTP response, resolves it
\* with that event.
C29_JoinedWaiterBeforeRequest ==
    [][/\ "join" \in Range(init.sent) => waiter[JoinW].status # "unregistered"
       /\ \A e \in Events :
             (PollResponse(e) /\ JoinedPredicate(e)
                /\ "join" \in Range(init.sent) /\ waiter[JoinW].settles = 0) =>
             /\ waiter'[JoinW].status = "resolved"
             /\ waiter'[JoinW].evt = e
             /\ resolution' = <<[w |-> JoinW, evt |-> e]>>]_vars

\* The 'joined' event has resolved the waiter while the join request still
\* awaits its HTTP response.
C29_Witness ==
    /\ init.pc = "joinAck"
    /\ "join" \in init.inflight
    /\ waiter[JoinW].status = "resolved"

\* C30 (as claimed): once joinRoom() has returned the id of the 'joined'
\* event, no step changes the publisher id.
C30_PublisherIdStable ==
    [][init.pc \in {"createOffer", "setLocal", "configure", "done"} =>
          publisherId' = publisherId]_vars

\* C31: subscribeSpeaker(userId) for a userId that has a recorded
\* subscription is not rejected and does not return early: it issues an
\* attach of its own; when it completes it replaces the entry of userId by
\* its own handle and changes no other entry; the call that subscribed
\* before keeps its handle and its open connection, which differ from the
\* new ones and are no longer in the map.
C31_ResubscribeReplaces ==
    [][\A c \in Calls :
          /\ \A u \in Users :
                (SubscribeSpeaker(c, u) /\ subscribers[u] # NoSubscriber) =>
                   /\ sub'[c].pc = "attach"
                   /\ sub'[c].sent = <<[request |-> "attach", handle |-> Undefined,
                                        feed |-> Undefined]>>
          /\ SubStartAck(c, TRUE) =>
                /\ subscribers' =
                      [subscribers EXCEPT ![sub[c].userId] =
                          [handleId |-> sub[c].handle, pcOpen |-> TRUE]]
                /\ \A d \in Calls \ {c} :
                      (sub[d].pc = "done" /\ sub[d].userId = sub[c].userId) =>
                         /\ sub'[d] = sub[d]
                         /\ sub[d].subPc = "stable"
                         /\ sub[d].handle # sub[c].handle
                         /\ subscribers'[sub[c].userId].handleId # sub[d].handle]_vars

\* Two calls for alice completed: the map holds the handle of the second,
\* and the connection of the first is still open.
C31_Witness ==
    /\ sub[1].pc = "done" /\ sub[1].userId = "alice"
    /\ sub[2].pc = "done" /\ sub[2].userId = "alice"
    /\ subscribers["alice"].handleId = sub[2].handle
    /\ sub[1].subPc = "stable"
    /\ sub[1].handle # sub[2].handle

\* C32: the dispatch of a keepalive, or of a payload without a janus field,
\* resolves no waiter, emits nothing and leaves every field of the client,
\* every waiter and every caller as they were.
C32_KeepaliveDiscarded ==
    [][\A e \in Events :
          (PollResponse(e) /\ e.janus \in {"none", "keepalive"}) =>
             /\ UNCHANGED <<sessionId, handleId, publisherId, pc,
                            localAudioSource, pollActive, eventWaiters, waiter,
                            timers, init, sub, subscribers>>
             /\ emitted' = <<>>
             /\ resolution' = <<>>]_vars

\* A poll iteration has completed while joinRoom awaits its event, and the
\* waiter is still pending, no id recorded and nothing notified.
C32_Witness ==
    /\ init.pc = "joinEvt"
    /\ Pending(JoinW)
    /\ poll = "delay"
    /\ publisherId = Undefined
    /\ emitted = <<>>

\* C33: the dispatch of an event whose jsep is an answer marks the publisher
\* connection, if there is one, as having its remote answer, whatever the
\* sender of the event; it touches no subscriber connection and no caller,
\* and when there is no publisher connection it changes nothing and
\* notifies no error.
C33_AnswerToPublisherOnly ==
    [][\A e \in SubEvents \cup AnswerEvents :
          (PollResponse(e) /\ e.jsep = "answer"
             /\ e.janus \notin {"none", "keepalive"}) =>
             /\ pc' = IF pc.exists THEN [pc EXCEPT !.remoteAnswer = TRUE] ELSE pc
             /\ pc'.exists = pc.exists
             /\ sub' = sub
             /\ subscribers' = subscribers
             /\ init' = init
             /\ ErrorsIn(emitted') = {}]_vars

\* The answer has been applied to the publisher connection while a
\* subscriber connection is negotiated.
C33_Witness ==
    /\ pc.exists /\ pc.remoteAnswer
    /\ sub[1].subPc \in {"new", "have-remote-offer", "stable"}

\* C34: a step in which a subscribeSpeaker call fails, at whatever position,
\* leaves the subscription map as it is; and every entry of the map is the
\* handle of a call for that userId that has completed.
C34_FailureLeavesMap ==
    /\ [][\A c \in Calls :
             (sub[c].pc # "failed" /\ sub'[c].pc = "failed") =>
                subscribers' = subscribers]_vars
    /\ [](\A u \in Users :
             subscribers[u] # NoSubscriber =>
                \E c \in Calls : /\ sub[c].pc = "done"
                                 /\ sub[c].userId = u
                                 /\ sub[c].handle = subscribers[u].handleId)

\* A call failed at its last step, the start request, and the map is empty.
C34_Witness ==
    /\ sub[1].pc = "failed" /\ sub[1].failedAt = "start"
    /\ \A u \in Users : subscribers[u] = NoSubscriber

\* initialize() has failed after startPolling() ran.
FailedWhilePolling == init.pc = "failed" /\ "createRoom" \in Range(init.sent)

\* C35: the step in which initialize() fails after polling has started
\* leaves pollActive as it is; afterwards, as long as stop() has not been
\* called, polling is active and every firing of the poll timer issues the
\* next long-poll; stop() clears the flag, and the next firing of the timer
\* ends the loop.
C35_FailedInitKeepsPolling ==
    /\ [][/\ (init.pc # "failed" /\ init'.pc = "failed"
               /\ "createRoom" \in Range(init.sent)) =>
                (pollActive' = pollActive /\ poll' = poll)
          /\ (FailedWhilePolling /\ pollActive /\ PollTimer) => poll' = "fetching"
          /\ (FailedWhilePolling /\ Stop) => ~pollActive'
          /\ (FailedWhilePolling /\ ~pollActive) => ~pollActive'
          /\ (FailedWhilePolling /\ ~pollActive /\ PollTimer) => poll' = "ended"
         ]_vars
    /\ []((FailedWhilePolling /\ ~stopped) =>
             (pollActive /\ poll \in {"fetching", "delay"}))

\* initialize() failed at the configure request and, stop() not having been
\* called, the next long-poll request is in flight.
C35_Witness ==
    /\ init.pc = "failed" /\ init.err = TransportError
    /\ "configure" \in Range(init.sent)
    /\ ~stopped
    /\ pollActive /\ poll = "fetching"

\* C36: the publisher connection never has more than one local track, a
\* track on it means the source exists, and a source once created is never
\* created again; a push made while neither a connection nor a source exists
\* creates nothing and its frame does not reach a source, the call going on
\* to its pause as usual.
C36_OneLocalSource ==
    /\ [](pc.tracks <= 1 /\ (pc.tracks = 1 => localAudioSource))
    /\ [][/\ localAudioSource => (localAudioSource' /\ pc'.tracks <= pc.tracks)
          /\ (EnableLocalAudio /\ ~pc.exists) => UNCHANGED <<pc, localAudioSource>>
          /\ (~pc.exists /\ ~localAudioSource /\ stream' # stream
                /\ Len(stream'.pauses) > Len(stream.pauses)) =>
                /\ UNCHANGED <<pc, localAudioSource>>
                /\ stream'.pushed = stream.pushed
                /\ stream'.pc = "pause"]_vars

\* A frame was pushed and discarded before the connection existed, and the
\* connection created later has its one track.
C36_Witness ==
    /\ Len(stream.pauses) > Len(stream.pushed)
    /\ pc.exists /\ pc.tracks = 1 /\ localAudioSource

\* C37: requestSpeaker() throws unless joinAsListener() has stored the auth
\* token and both chat tokens; becomeSpeaker() and cancelSpeakerRequest()
\* throw unless a speaker request is outstanding; the sessionUUID is set
\* exactly while a request is outstanding, and a cancel that fails leaves it
\* as it is.
C37_ParticipantCallOrder ==
    /\ [][/\ (RequestSpeaker /\ ~(participant.authToken /\ participant.chatJwtToken
                                  /\ participant.chatToken)) =>
                /\ participant'.last = "requestSpeaker rejected"
                /\ ~participant'.request
          /\ (BecomeSpeaker /\ ~participant.outstanding) =>
                participant'.last = "becomeSpeaker rejected"
          /\ (CancelSpeakerRequest /\ ~participant.outstanding) =>
                /\ participant'.last = "cancelSpeakerRequest rejected"
                /\ ~participant'.cancel
          /\ CancelSpeakerResponse(FALSE) =>
                participant'.sessionUUID = participant.sessionUUID
         ]_vars
    /\ [](participant.outstanding <=> participant.sessionUUID # Undefined)
    /\ [](participant.request =>
             (participant.authToken /\ participant.chatJwtToken
                /\ participant.chatToken))

\* A cancel failed and the speaker request it was for is still outstanding,
\* so that becomeSpeaker() was accepted afterwards.
C37_Witness ==
    /\ participant.last = "becomeSpeaker accepted"
    /\ participant.sessionUUID # Undefined
    /\ ~participant.cancel
    /\ participant.listener = "failed"

\* C38: getSpeakers() lists a user only if an approve call for that user
\* succeeded (or is still awaiting the endpoint): after the endpoint rejected
\* the request the user is not listed.
C38_ListedOnlyIfApproved ==
    \A u \in GetSpeakers : u \in space.approved \/ u \in space.approving

\* C39: every registration of a plugin that has an init() has had init()
\* called not at all while initialize() has not completed, and exactly once
\* afterwards: by initialize() when use() came before its end, by use()
\* when it came after.
C39_InitOnce ==
    \A r \in space.plugins \cap space.hasInit :
        /\ space.init # "done" => space.inits[r] = 0
        /\ space.init = "done" =>
              /\ space.inits[r] = 1
              /\ space.initAt[r] =
                    IF space.usedAt[r] = "after" THEN "use" ELSE "initialize"

\* One plugin was registered during the awaits of initialize() and one
\* after it, and both have been initialized.
C39_Witness ==
    /\ space.init = "done"
    /\ \E r1, r2 \in space.plugins \cap space.hasInit :
          /\ space.usedAt[r1] = "during" /\ space.inits[r1] = 1
          /\ space.usedAt[r2] = "after" /\ space.inits[r2] = 1

\* C40: at most one ffmpeg process that the recorder spawned is recording
\* at a time.
C40_AtMostOneRecording == Cardinality(Recording) <= 1

====
